---- MODULE Spec2Model ----
(***************************************************************************)
(* Notification preference and delivery engine of the WMS backend:         *)
(* models/Notification.js (record store, createAndSend, scheduled sweep),  *)
(* models/NotificationPreferences.js (preferences, quiet hours,            *)
(* sendNotificationIfAllowed) and routes/notifications.js (read, read-all, *)
(* archive, preference updates).                                           *)
(*                                                                         *)
(* Time is the server's local wall clock in minutes since midnight of day  *)
(* 0.  Every Date the code builds with setHours(h, m, 0, 0) is a whole     *)
(* minute, so comparing it with the minute of `new Date()` gives the same  *)
(* answer as the millisecond comparison of the code.                       *)
(***************************************************************************)
EXTENDS Integers, Sequences, FiniteSets, TLC

VARIABLES
    now,        \* the wall clock (minutes since midnight of day 0)
    prefs,      \* NotificationPreferences collection: user -> its document
    notifs,     \* Notification collection: sequence of documents, _id = index
    last,       \* outcome of the last operation (observation only)
    quantity,   \* Material.quantity of the material (NoMaterial before it exists)
    calls       \* the calls in flight: per process, its position and its locals

vars == <<now, prefs, notifs, last, quantity, calls>>

----------------------------------------------------------------------------
\* Bounds of the model
MaxNotifs == 1
MaxTicks == 1
\* largest store and number of clock steps of the backlog specification
MaxBulk == 102
MaxBulkTicks == 2
\* largest store and number of clock steps of the threshold-check specification
MaxCapNotifs == 3
MaxCapTicks == 2
\* largest quantity and store of the low-stock specification
MaxQuantity == 7
MaxStockNotifs == 2
\* days of the quiet-hours specification's minute clock
MaxQuietDays == 1
\* largest store of the interleaving specification
MaxRaceNotifs == 2
\* largest store of the two-recipient specification
MaxScopeNotifs == 3
\* largest store and number of clock steps of the night specification
MaxNightNotifs == 2
MaxNightTicks == 4
\* largest store and number of clock steps of the deadline specification
MaxDeadlineNotifs == 4
MaxDeadlineTicks == 4

TickLen == 8 * 60
DayMinutes == 24 * 60
MaxTime == MaxTicks * TickLen

----------------------------------------------------------------------------
\* Values

None == "none"
\* an absent Date field
NoDate == 0 - 1
\* the quantity of a material that does not exist yet
NoMaterial == 0 - 1

Users == {"u1"}
NoRecipient == "norecipient"

\* Notification.type enum of the schema
NotificationTypeEnum ==
    {"task_assigned", "task_completed", "deadline_approaching", "deadline_overdue",
     "time_approved", "time_rejected", "system_announcement", "reminder",
     "overtime_alert", "schedule_change", "low_stock", "daily_report_missing",
     "contract_exceeded", "inventory_exceeded", "attendance_checkin",
     "attendance_checkout"}
\* paths declared under NotificationPreferences.notificationTypes
ToggleTypes ==
    {"task_assigned", "task_completed", "deadline_approaching", "deadline_overdue",
     "time_approved", "time_rejected", "system_announcement", "reminder",
     "overtime_alert", "schedule_change", "low_stock", "daily_report_missing"}
\* types callers pass: one with a toggle, one of the enum without a toggle,
\* one that is in neither table
PayloadTypes == {"reminder", "contract_exceeded", "todo_reminder"}

PriorityEnum == {"low", "medium", "high", "urgent"}
PayloadPriorities == {"medium", "urgent"}

StatusEnum == {"pending", "sent", "delivered", "read", "archived"}

\* channel targets: an Expo push token and a web-push subscription
PushToken == "ExponentPushToken[a]"
Subscription == "subscription"

\* "HH:MM" strings
HM(h, m) == [h |-> h, m |-> m]

----------------------------------------------------------------------------
\* Date arithmetic

GetHours(t) == (t % DayMinutes) \div 60
GetMinutes(t) == t % 60
\* Date.setHours(h, m, 0, 0): same calendar day, given wall-clock time
SetHours(t, h, m) == (t \div DayMinutes) * DayMinutes + h * 60 + m
\* Date.setDate(getDate() + 1)
NextDay(t) == t + DayMinutes

\* parseInt("HH:MM".replace(':', ''))
ParseHHMM(s) == s.h * 100 + s.m

----------------------------------------------------------------------------
\* NotificationPreferences

\* reminderSettings with the schema defaults (taskReminders is read by none
\* of the operations followed here)
DefaultReminderSettings ==
    [ deadlineReminders |-> [enabled |-> TRUE, hoursBefore |-> 24, repeat |-> FALSE],
      dailySummary |-> [enabled |-> FALSE, time |-> HM(18, 0)] ]

\* new NotificationPreferences({ user }) with the schema defaults
DefaultPreferences ==
    [ pushEnabled |-> TRUE,
      reminderSettings |-> DefaultReminderSettings,
      notificationTypes |-> [ty \in ToggleTypes |-> TRUE],
      quietHours |-> [enabled |-> FALSE, startTime |-> HM(22, 0), endTime |-> HM(8, 0),
                     timezone |-> "UTC"],
      pushToken |-> None,
      webPushSubscription |-> None ]

\* this.notificationTypes[type] of a path the schema does not declare is
\* undefined, which is falsy
\* (variant: only the global switch is consulted)
isNotificationEnabled_IgnoresToggle(p, type) == p.pushEnabled

isNotificationEnabled(p, type) ==
    p.pushEnabled /\ (IF type \in DOMAIN p.notificationTypes
                      THEN p.notificationTypes[type] ELSE FALSE)

\* the preferences after getOrCreateForUser(u)
getOrCreateForUser(ps, u) ==
    IF u \in DOMAIN ps THEN ps
    ELSE [v \in DOMAIN ps \cup {u} |-> IF v = u THEN DefaultPreferences ELSE ps[v]]

\* (variant: the end minute is outside the window)
isInQuietHours_ExclusiveEnd(p, t) ==
    IF ~p.quietHours.enabled THEN FALSE
    ELSE LET currentTime == GetHours(t) * 100 + GetMinutes(t)
             startTime == ParseHHMM(p.quietHours.startTime)
             endTime == ParseHHMM(p.quietHours.endTime)
         IN IF startTime < endTime
            THEN currentTime >= startTime /\ currentTime < endTime
            ELSE currentTime >= startTime \/ currentTime < endTime

isInQuietHours(p, t) ==
    IF ~p.quietHours.enabled THEN FALSE
    ELSE LET currentTime == GetHours(t) * 100 + GetMinutes(t)
             startTime == ParseHHMM(p.quietHours.startTime)
             endTime == ParseHHMM(p.quietHours.endTime)
         IN IF startTime < endTime
            THEN currentTime >= startTime /\ currentTime <= endTime
            ELSE currentTime >= startTime \/ currentTime <= endTime

\* (variant: the end time is never rolled to the next day)
QuietHoursEnd_NoRoll(p, t) ==
    SetHours(t, p.quietHours.endTime.h, p.quietHours.endTime.m)

\* scheduledTime of sendNotificationIfAllowed
QuietHoursEnd(p, t) ==
    LET scheduledTime == SetHours(t, p.quietHours.endTime.h, p.quietHours.endTime.m)
    IN IF scheduledTime <= t THEN NextDay(scheduledTime) ELSE scheduledTime

----------------------------------------------------------------------------
\* Channel adapters

\* sendExpoPushNotification returns the tickets, or throws: on a missing
\* token, on a token Expo.isExpoPushToken rejects, or when the transport
\* throws.  ok = FALSE stands for the last two.
ExpoAcks(token, ok) == token # None /\ ok
\* sendWebPushNotification returns the response, or throws: when the VAPID
\* keys are not configured, on a missing subscription, or when the transport
\* rejects.  ok = FALSE stands for the first and the last.
WebPushAcks(sub, ok) == sub # None /\ ok

----------------------------------------------------------------------------
\* Notification documents

\* (variant: title is not required)
Validates_TitleOptional(data) ==
    /\ data.recipient # NoRecipient
    /\ data.message # ""
    /\ data.type \in NotificationTypeEnum
    /\ data.priority \in PriorityEnum

\* schema validation run by save(): required recipient/title/message/type
\* (title and message trimmed), enum type and priority
Validates(data) ==
    /\ data.recipient # NoRecipient
    /\ data.title # ""
    /\ data.message # ""
    /\ data.type \in NotificationTypeEnum
    /\ data.priority \in PriorityEnum

\* (variant: a record that is already read is flipped back)
markAsRead_Toggles(doc, t) ==
    IF doc.status = "read"
    THEN [doc EXCEPT !.status = "delivered", !.readAt = NoDate]
    ELSE [doc EXCEPT !.status = "read", !.readAt = t]

markAsRead(doc, t) == [doc EXCEPT !.status = "read", !.readAt = t]

markAsDelivered(doc, response) ==
    [doc EXCEPT !.status = "delivered",
                !.pushResponse = IF response # None THEN response ELSE @]

\* (variant: new Notification(notificationData), the payload's status kept)
NewNotification_KeepsStatus(data) ==
    [ recipient |-> data.recipient,
      type |-> data.type,
      status |-> IF data.status # None THEN data.status ELSE "pending",
      scheduledFor |-> data.scheduledFor,
      pushToken |-> data.pushToken,
      webPushSubscription |-> data.webPushSubscription,
      pushResponse |-> None,
      webPushResponse |-> None,
      priority |-> data.priority,
      key |-> data.key,
      createdAt |-> NoDate,
      readAt |-> NoDate ]

\* new Notification({ ...notificationData, status: 'pending' }).  The
\* document keeps the fields an engine operation reads or writes after the
\* creation, and the priority; title, message, sender, the other data
\* fields, updatedAt and expiresAt are written once and only handed to the
\* channels.
\* key is the data field the daily caps count by (data.contractId,
\* data.materialName); createdAt is set by the first save.
NewNotification(data) ==
    [ recipient |-> data.recipient,
      type |-> data.type,
      status |-> "pending",
      scheduledFor |-> data.scheduledFor,
      pushToken |-> data.pushToken,
      webPushSubscription |-> data.webPushSubscription,
      pushResponse |-> None,
      webPushResponse |-> None,
      priority |-> data.priority,
      key |-> data.key,
      createdAt |-> NoDate,
      readAt |-> NoDate ]

\* (variant: an acknowledged web push only stores its response)
AttemptChannels_WebOnlyStores(doc, pushOK, webOK) ==
    LET pushTried == doc.pushToken # None
        pushAck == pushTried /\ ExpoAcks(doc.pushToken, pushOK)
        afterPush == IF pushAck THEN markAsDelivered(doc, "tickets") ELSE doc
        webTried == doc.webPushSubscription # None
        webAck == webTried /\ WebPushAcks(doc.webPushSubscription, webOK)
        afterWeb == IF webAck THEN [afterPush EXCEPT !.webPushResponse = "resp"]
                    ELSE afterPush
    IN [ doc |-> afterWeb,
         calls |-> (IF pushTried THEN <<"push">> ELSE <<>>) \o
                   (IF webTried THEN <<"web">> ELSE <<>>),
         acked |-> (IF pushAck THEN {"push"} ELSE {}) \cup
                   (IF webAck THEN {"web"} ELSE {}) ]

\* (variant: one try/catch around both channels, a push that throws skips
\* the web push)
AttemptChannels_OneTry(doc, pushOK, webOK) ==
    LET pushTried == doc.pushToken # None
        pushAck == pushTried /\ ExpoAcks(doc.pushToken, pushOK)
        afterPush == IF pushAck THEN markAsDelivered(doc, "tickets") ELSE doc
        webTried == doc.webPushSubscription # None /\ (pushTried => pushAck)
        webAck == webTried /\ WebPushAcks(doc.webPushSubscription, webOK)
        withResp == [afterPush EXCEPT !.webPushResponse = "resp"]
        afterWeb == IF ~webAck THEN afterPush
                    ELSE IF ~pushAck THEN markAsDelivered(withResp, "resp")
                    ELSE withResp
    IN [ doc |-> afterWeb,
         calls |-> (IF pushTried THEN <<"push">> ELSE <<>>) \o
                   (IF webTried THEN <<"web">> ELSE <<>>),
         acked |-> (IF pushAck THEN {"push"} ELSE {}) \cup
                   (IF webAck THEN {"web"} ELSE {}) ]

\* The two channel attempts of createAndSend / processScheduledNotifications
\* on one document: the document as last saved, and the channels invoked.
AttemptChannels(doc, pushOK, webOK) ==
    LET pushTried == doc.pushToken # None
        pushAck == pushTried /\ ExpoAcks(doc.pushToken, pushOK)
        afterPush == IF pushAck THEN markAsDelivered(doc, "tickets") ELSE doc
        webTried == doc.webPushSubscription # None
        webAck == webTried /\ WebPushAcks(doc.webPushSubscription, webOK)
        withResp == [afterPush EXCEPT !.webPushResponse = "resp"]
        afterWeb == IF ~webAck THEN afterPush
                    ELSE IF ~pushAck THEN markAsDelivered(withResp, "resp")
                    ELSE withResp
    IN [ doc |-> afterWeb,
         calls |-> (IF pushTried THEN <<"push">> ELSE <<>>) \o
                   (IF webTried THEN <<"web">> ELSE <<>>),
         acked |-> (IF pushAck THEN {"push"} ELSE {}) \cup
                   (IF webAck THEN {"web"} ELSE {}) ]

\* (variant: no early return for a scheduledFor in the future)
createAndSend_SendsScheduled(ns, data, t, up, pushOK, webOK) ==
    LET doc == [NewNotification(data) EXCEPT !.createdAt = t]
        id == Len(ns) + 1
    IN IF ~up \/ ~Validates(data)
       THEN [notifs |-> ns, ret |-> "error", id |-> 0, sent |-> {}, acked |-> {},
             trace |-> <<>>]
       ELSE LET a == AttemptChannels(doc, pushOK, webOK)
            IN [notifs |-> Append(ns, a.doc), ret |-> "record", id |-> id,
                sent |-> {<<id, a.calls[k]>> : k \in 1..Len(a.calls)},
                acked |-> {<<id, c>> : c \in a.acked},
                trace |-> <<"save">> \o a.calls]

\* Notification.createAndSend(notificationData) at time t.  `up` says whether
\* the store accepts the first save; the saves that follow it in the same
\* call then succeed too.  trace lists the save and the channel calls in the
\* order the call makes them.
createAndSend(ns, data, t, up, pushOK, webOK) ==
    LET doc == [NewNotification(data) EXCEPT !.createdAt = t]
        id == Len(ns) + 1
    IN IF ~up \/ ~Validates(data)
       THEN [notifs |-> ns, ret |-> "error", id |-> 0, sent |-> {}, acked |-> {},
             trace |-> <<>>]
       ELSE IF doc.scheduledFor # NoDate /\ doc.scheduledFor > t
       THEN [notifs |-> Append(ns, doc), ret |-> "record", id |-> id,
             sent |-> {}, acked |-> {}, trace |-> <<"save">>]
       ELSE LET a == AttemptChannels(doc, pushOK, webOK)
            IN [notifs |-> Append(ns, a.doc), ret |-> "record", id |-> id,
                sent |-> {<<id, a.calls[k]>> : k \in 1..Len(a.calls)},
                acked |-> {<<id, c>> : c \in a.acked},
                trace |-> <<"save">> \o a.calls]

\* (variant: quiet hours defer urgent notifications too)
sendNotificationIfAllowed_DefersUrgent(ps, ns, u, data, t, up, pushOK, webOK) ==
    IF ~up
    THEN [prefs |-> ps, notifs |-> ns, ret |-> "error", id |-> 0,
          sent |-> {}, acked |-> {}]
    ELSE
    LET ps1 == getOrCreateForUser(ps, u)
        p == ps1[u]
    IN IF isNotificationEnabled(p, data.type)
       THEN LET d1 == IF isInQuietHours(p, t)
                      THEN [data EXCEPT !.scheduledFor = QuietHoursEnd(p, t)]
                      ELSE data
                d2 == IF p.pushToken # None
                      THEN [d1 EXCEPT !.pushToken = p.pushToken] ELSE d1
                d3 == IF p.webPushSubscription # None
                      THEN [d2 EXCEPT !.webPushSubscription = p.webPushSubscription]
                      ELSE d2
                r == createAndSend(ns, d3, t, up, pushOK, webOK)
            IN [prefs |-> ps1, notifs |-> r.notifs, ret |-> r.ret, id |-> r.id,
                sent |-> r.sent, acked |-> r.acked]
       ELSE [prefs |-> ps1, notifs |-> ns, ret |-> "null", id |-> 0,
             sent |-> {}, acked |-> {}]

\* NotificationPreferences.sendNotificationIfAllowed(u, notificationData)
sendNotificationIfAllowed(ps, ns, u, data, t, up, pushOK, webOK) ==
    IF ~up
    THEN [prefs |-> ps, notifs |-> ns, ret |-> "error", id |-> 0,
          sent |-> {}, acked |-> {}]
    ELSE
    LET ps1 == getOrCreateForUser(ps, u)
        p == ps1[u]
    IN IF isNotificationEnabled(p, data.type)
       THEN LET d1 == IF isInQuietHours(p, t) /\ data.priority # "urgent"
                      THEN [data EXCEPT !.scheduledFor = QuietHoursEnd(p, t)]
                      ELSE data
                d2 == IF p.pushToken # None
                      THEN [d1 EXCEPT !.pushToken = p.pushToken] ELSE d1
                d3 == IF p.webPushSubscription # None
                      THEN [d2 EXCEPT !.webPushSubscription = p.webPushSubscription]
                      ELSE d2
                r == createAndSend(ns, d3, t, up, pushOK, webOK)
            IN [prefs |-> ps1, notifs |-> r.notifs, ret |-> r.ret, id |-> r.id,
                sent |-> r.sent, acked |-> r.acked]
       ELSE [prefs |-> ps1, notifs |-> ns, ret |-> "null", id |-> 0,
             sent |-> {}, acked |-> {}]

----------------------------------------------------------------------------
\* Threshold checks (contract and inventory)

\* the contract and the material the checks find
ContractId == "c1"
MaterialName == "m1"

\* today = new Date(); today.setHours(0, 0, 0, 0)
StartOfDay(t) == SetHours(t, 0, 0)

\* Notification.countDocuments({ recipient, type, 'data.<key>': key,
\*                               createdAt: { $gte: today, $lt: endOfDay } })
CountToday(ns, u, type, key, t) ==
    Cardinality({ i \in 1..Len(ns) :
                    /\ ns[i].recipient = u
                    /\ ns[i].type = type
                    /\ ns[i].key = key
                    /\ ns[i].createdAt >= StartOfDay(t)
                    /\ ns[i].createdAt < NextDay(StartOfDay(t)) })

\* if (notificationCount >= 2) continue
ExceededDailyCap == 2

\* the notificationData of an exceeded contract or material
ExceededPayload(u, type, key) ==
    [ recipient |-> u, title |-> "T", message |-> "M", type |-> type,
      priority |-> "high", status |-> None, scheduledFor |-> NoDate,
      pushToken |-> None, webPushSubscription |-> None, key |-> key ]

\* the users of the organisation in the order the query returns them
UserIds(us) ==
    CHOOSE ids \in [1..Cardinality(us) -> us] :
        \A i, j \in 1..Cardinality(us) : i # j => ids[i] # ids[j]

\* totalNotified++ after a send that did not throw; r is the send's result
Tally(acc, r) ==
    [prefs |-> r.prefs, notifs |-> r.notifs,
     notified |-> acc.notified + (IF r.ret = "error" THEN 0 ELSE 1),
     sent |-> acc.sent \cup r.sent, acked |-> acc.acked \cup r.acked]

\* (variant: every user gets a record through createAndSend, uncounted)
NotifyExceededUsers_Uncounted(ps, ns, us, type, key, t, up, pushOK, webOK) ==
    LET userIds == UserIds(us)
        after[i \in 0..Len(userIds)] ==
            IF i = 0
            THEN [prefs |-> ps, notifs |-> ns, notified |-> 0, sent |-> {}, acked |-> {}]
            ELSE Tally(after[i - 1],
                       createAndSend(after[i - 1].notifs,
                                     ExceededPayload(userIds[i], type, key),
                                     t, up, pushOK, webOK) @@ [prefs |-> ps])
    IN after[Len(userIds)]

\* for (const userId of userIds) { try { count; skip at the cap;
\* sendNotificationIfAllowed; totalNotified++ } catch { log } }
\* after[i]: the collections and the counters after the first i users
NotifyExceededUsers(ps, ns, us, type, key, t, up, pushOK, webOK) ==
    LET userIds == UserIds(us)
        after[i \in 0..Len(userIds)] ==
            IF i = 0
            THEN [prefs |-> ps, notifs |-> ns, notified |-> 0, sent |-> {}, acked |-> {}]
            ELSE IF up /\ CountToday(after[i - 1].notifs, userIds[i], type, key, t)
                             >= ExceededDailyCap
            THEN after[i - 1]
            ELSE Tally(after[i - 1],
                       sendNotificationIfAllowed(after[i - 1].prefs, after[i - 1].notifs,
                                                 userIds[i],
                                                 ExceededPayload(userIds[i], type, key),
                                                 t, up, pushOK, webOK))
    IN after[Len(userIds)]

\* checkAndNotifyExceededContracts() for one organisation with one active
\* contract; exceeded: totalConsumption > contract.contractQuantity
checkAndNotifyExceededContracts(ps, ns, exceeded, t, up, pushOK, webOK) ==
    IF exceeded
    THEN NotifyExceededUsers(ps, ns, Users, "contract_exceeded", ContractId,
                             t, up, pushOK, webOK)
    ELSE [prefs |-> ps, notifs |-> ns, notified |-> 0, sent |-> {}, acked |-> {}]

\* checkAndNotifyExceededInventory() for one organisation with one received
\* material; exceeded: totalConsumption > totalReceived
checkAndNotifyExceededInventory(ps, ns, exceeded, t, up, pushOK, webOK) ==
    IF exceeded
    THEN NotifyExceededUsers(ps, ns, Users, "inventory_exceeded", MaterialName,
                             t, up, pushOK, webOK)
    ELSE [prefs |-> ps, notifs |-> ns, notified |-> 0, sent |-> {}, acked |-> {}]

----------------------------------------------------------------------------
\* Low stock

\* getLowStockThreshold() with LOW_STOCK_THRESHOLD unset
LowStockThreshold == 5

\* Number.POSITIVE_INFINITY (a value no quantity takes)
Infinity == 0 - 2

LowStockPayload(u) ==
    [ recipient |-> u, title |-> "T", message |-> "M", type |-> "low_stock",
      priority |-> "high", status |-> None, scheduledFor |-> NoDate,
      pushToken |-> None, webPushSubscription |-> None, key |-> None ]

\* Promise.all: the call rejects when one send rejects; r is a send's result
Settle(acc, r) ==
    [prefs |-> r.prefs, notifs |-> r.notifs,
     ret |-> IF r.ret = "error" THEN "error" ELSE acc.ret,
     sent |-> acc.sent \cup r.sent, acked |-> acc.acked \cup r.acked]

\* Promise.all(uniqueIds.map(id => sendNotificationIfAllowed(id, ...))): one
\* call per recipient, on different preferences documents; a call that
\* rejects rejects the whole
SendLowStock(ps, ns, us, t, up, pushOK, webOK) ==
    LET userIds == UserIds(us)
        after[i \in 0..Len(userIds)] ==
            IF i = 0
            THEN [prefs |-> ps, notifs |-> ns, ret |-> "notified", sent |-> {},
                  acked |-> {}]
            ELSE Settle(after[i - 1],
                        sendNotificationIfAllowed(after[i - 1].prefs, after[i - 1].notifs,
                                                  userIds[i], LowStockPayload(userIds[i]),
                                                  t, up, pushOK, webOK))
    IN after[Len(userIds)]

\* (variant: the previous quantity is not looked at)
notifyLowStockIfNeeded_LevelTrigger(ps, ns, q, prevQuantity, t, up, pushOK, webOK) ==
    IF q > LowStockThreshold
    THEN [prefs |-> ps, notifs |-> ns, ret |-> "ok", sent |-> {}, acked |-> {}]
    ELSE SendLowStock(ps, ns, Users, t, up, pushOK, webOK)

\* notifyLowStockIfNeeded({ material, prevQuantity, triggeredBy }), q being
\* material.quantity
notifyLowStockIfNeeded(ps, ns, q, prevQuantity, t, up, pushOK, webOK) ==
    IF q > LowStockThreshold
    THEN [prefs |-> ps, notifs |-> ns, ret |-> "ok", sent |-> {}, acked |-> {}]
    ELSE IF prevQuantity # Infinity /\ prevQuantity <= LowStockThreshold
    THEN [prefs |-> ps, notifs |-> ns, ret |-> "ok", sent |-> {}, acked |-> {}]
    ELSE SendLowStock(ps, ns, Users, t, up, pushOK, webOK)

----------------------------------------------------------------------------
\* Deadline checks and daily summaries

\* the active tasks with a due date, in the order Task.find returns them,
\* each assigned to an employee with a user account
TaskUser == CHOOSE u \in Users : TRUE

Tasks ==
    << [id |-> "t1", dueDate |-> 12 * 60, priority |-> "medium", assignedTo |-> TaskUser],
       [id |-> "t2", dueDate |-> 18 * 60, priority |-> "urgent", assignedTo |-> TaskUser] >>

TaskIds == { Tasks[k].id : k \in 1..Len(Tasks) }

\* data.summaryType of a daily summary
DailySummaryType == "daily"

\* (variant: the lookup window starts at the current time, not at midnight)
NotifiedToday_SinceNow(ns, u, type, key, t) ==
    \E i \in 1..Len(ns) :
        /\ ns[i].recipient = u
        /\ ns[i].type = type
        /\ ns[i].key = key
        /\ ns[i].createdAt >= t
        /\ ns[i].createdAt < NextDay(StartOfDay(t))

\* Notification.findOne({ recipient, type, 'data.<key>': key,
\*                        createdAt: { $gte: today, $lt: endOfDay } })
NotifiedToday(ns, u, type, key, t) ==
    \E i \in 1..Len(ns) :
        /\ ns[i].recipient = u
        /\ ns[i].type = type
        /\ ns[i].key = key
        /\ ns[i].createdAt >= StartOfDay(t)
        /\ ns[i].createdAt < NextDay(StartOfDay(t))

\* the notificationData of a deadline or summary notification
ReminderPayload(u, type, priority, key) ==
    [ recipient |-> u, title |-> "T", message |-> "M", type |-> type,
      priority |-> priority, status |-> None, scheduledFor |-> NoDate,
      pushToken |-> None, webPushSubscription |-> None, key |-> key ]

\* the collections and the counters a check starts from
Unnotified(ps, ns) ==
    [prefs |-> ps, notifs |-> ns, notified |-> 0, sent |-> {}, acked |-> {}]

\* task.priority === 'urgent' ? 'urgent' : task.priority === 'high' ? 'high'
\*   : hoursUntilDeadline < 1 ? 'high' : 'medium'
ApproachingPriority(task, t) ==
    IF task.priority = "urgent" THEN "urgent"
    ELSE IF task.priority = "high" THEN "high"
    ELSE IF task.dueDate - t < 60 THEN "high" ELSE "medium"

\* checkAndNotifyApproachingDeadlines() at time t; after[i]: the collections
\* and the counters after the first i tasks.  A store that is down makes the
\* first query throw.
checkAndNotifyApproachingDeadlines(ps, ns, t, up, pushOK, webOK) ==
    LET after[i \in 0..Len(Tasks)] ==
            IF i = 0 THEN Unnotified(ps, ns)
            ELSE LET task == Tasks[i]
                     u == task.assignedTo
                     a == after[i - 1]
                 IN IF u \notin DOMAIN a.prefs THEN a
                    ELSE IF ~a.prefs[u].reminderSettings.deadlineReminders.enabled
                    THEN a
                    ELSE IF ~(/\ task.dueDate - t > 0
                              /\ task.dueDate - t <=
                                   a.prefs[u].reminderSettings.deadlineReminders.hoursBefore * 60)
                    THEN a
                    ELSE IF /\ NotifiedToday(a.notifs, u, "deadline_approaching", task.id, t)
                            /\ ~a.prefs[u].reminderSettings.deadlineReminders.repeat
                    THEN a
                    ELSE Tally(a, sendNotificationIfAllowed(
                                      a.prefs, a.notifs, u,
                                      ReminderPayload(u, "deadline_approaching",
                                                      ApproachingPriority(task, t), task.id),
                                      t, up, pushOK, webOK))
    IN IF up THEN after[Len(Tasks)] ELSE Unnotified(ps, ns)

\* checkAndNotifyOverdueDeadlines() at time t
checkAndNotifyOverdueDeadlines(ps, ns, t, up, pushOK, webOK) ==
    LET after[i \in 0..Len(Tasks)] ==
            IF i = 0 THEN Unnotified(ps, ns)
            ELSE LET task == Tasks[i]
                     u == task.assignedTo
                     a == after[i - 1]
                 IN IF ~(task.dueDate < t) THEN a
                    ELSE IF u \notin DOMAIN a.prefs THEN a
                    ELSE IF ~a.prefs[u].notificationTypes["deadline_overdue"] THEN a
                    ELSE IF NotifiedToday(a.notifs, u, "deadline_overdue", task.id, t)
                    THEN a
                    ELSE Tally(a, sendNotificationIfAllowed(
                                      a.prefs, a.notifs, u,
                                      ReminderPayload(u, "deadline_overdue",
                                                      IF task.priority = "urgent"
                                                      THEN "urgent" ELSE "high",
                                                      task.id),
                                      t, up, pushOK, webOK))
    IN IF up THEN after[Len(Tasks)] ELSE Unnotified(ps, ns)

\* overdueTasks > 0 ? 'high' : 'medium', over the employee's active tasks
SummaryPriority(u, t) ==
    IF \E k \in 1..Len(Tasks) : Tasks[k].assignedTo = u /\ Tasks[k].dueDate < t
    THEN "high" ELSE "medium"

\* sendDailySummaries() at time t, over the employees with a user account
sendDailySummaries(ps, ns, t, up, pushOK, webOK) ==
    LET userIds == UserIds(Users)
        after[i \in 0..Len(userIds)] ==
            IF i = 0 THEN Unnotified(ps, ns)
            ELSE LET u == userIds[i]
                     a == after[i - 1]
                 IN IF u \notin DOMAIN a.prefs THEN a
                    ELSE IF ~a.prefs[u].reminderSettings.dailySummary.enabled THEN a
                    ELSE IF \/ GetHours(t) # a.prefs[u].reminderSettings.dailySummary.time.h
                            \/ GetMinutes(t) # a.prefs[u].reminderSettings.dailySummary.time.m
                    THEN a
                    ELSE IF NotifiedToday(a.notifs, u, "reminder", DailySummaryType, t)
                    THEN a
                    ELSE Tally(a, sendNotificationIfAllowed(
                                      a.prefs, a.notifs, u,
                                      ReminderPayload(u, "reminder", SummaryPriority(u, t),
                                                      DailySummaryType),
                                      t, up, pushOK, webOK))
    IN IF GetMinutes(t) # 0 \/ ~up THEN Unnotified(ps, ns) ELSE after[Len(userIds)]

----------------------------------------------------------------------------
\* Observation of the last delivery operation: what it returned or threw,
\* the channel sends it made and the ones that were acknowledged
Outcome(op, ret, id, sent, acked) ==
    [op |-> op, ret |-> ret, id |-> id, sent |-> sent, acked |-> acked]

Idle == Outcome("other", "ok", 0, {}, {})

----------------------------------------------------------------------------
\* Calls in flight.  The operations above run to completion in one step; an
\* operation that is followed across its awaits is a call of a process.
Procs == {"p1", "p2"}

\* a local that holds no document
NoDoc == [absent |-> TRUE]

\* a process that is not inside a call
NoCall ==
    [ op |-> "none", pc |-> "done", u |-> None, data |-> NoDoc, p |-> NoDoc,
      id |-> 0, doc |-> NoDoc, delivered |-> FALSE, queue |-> <<>>,
      loaded |-> <<>>, ret |-> "ok" ]

NoCalls == [c \in Procs |-> NoCall]

----------------------------------------------------------------------------
\* Inputs

\* notificationData the business callers hand to sendNotificationIfAllowed;
\* none of them sets status, scheduledFor or a channel target
Payload(recipient, title, message, type, priority) ==
    [ recipient |-> recipient, title |-> title, message |-> message,
      type |-> type, priority |-> priority, status |-> None,
      scheduledFor |-> NoDate, pushToken |-> None, webPushSubscription |-> None,
      key |-> None ]

SendPayloads(u) ==
    { Payload(u, "T", "M", "reminder", pr) : pr \in PayloadPriorities }
    \cup { Payload(u, "T", "M", ty, "medium") : ty \in PayloadTypes }
    \cup { Payload(u, "", "M", "reminder", "medium"),
           Payload(u, "T", "", "reminder", "urgent"),
           Payload(NoRecipient, "T", "M", "reminder", "medium") }

\* notificationData of a direct createAndSend (routes/tasks.js resolves the
\* targets itself); the contract lets the caller set status and scheduledFor
DirectPayloads(t) ==
    UNION { { Payload(u, "T", "M", "reminder", "medium"),
              [ Payload(u, "T", "M", "reminder", "medium") EXCEPT
                  !.status = "read",
                  !.pushToken = PushToken, !.webPushSubscription = Subscription ],
              [ Payload(u, "T", "M", "reminder", "medium") EXCEPT
                  !.scheduledFor = t + TickLen,
                  !.pushToken = PushToken, !.webPushSubscription = Subscription ],
              [ Payload(u, "T", "M", "reminder", "medium") EXCEPT
                  !.scheduledFor = t,
                  !.pushToken = PushToken, !.webPushSubscription = Subscription ],
              Payload(u, "", "M", "reminder", "medium"),
              Payload(u, "T", "M", "todo_reminder", "medium") } : u \in Users }

\* outcomes of one call: whether the store accepts the first save, and
\* whether each channel acknowledges
CallOutcomes ==
    { <<TRUE, p, w>> : p, w \in BOOLEAN } \cup { <<FALSE, TRUE, TRUE>> }

\* bodies of PUT /preferences (the route passes any declared path on)
Prefs(pe, toggle, qh, token, sub) ==
    [ pushEnabled |-> pe,
      reminderSettings |-> DefaultReminderSettings,
      notificationTypes |-> [ty \in ToggleTypes |-> toggle],
      quietHours |-> qh,
      pushToken |-> token,
      webPushSubscription |-> sub ]

QuietOff ==
    [enabled |-> FALSE, startTime |-> HM(22, 0), endTime |-> HM(8, 0), timezone |-> "UTC"]
QuietOvernight ==
    [enabled |-> TRUE, startTime |-> HM(22, 0), endTime |-> HM(8, 0), timezone |-> "UTC"]
QuietSameDay ==
    [enabled |-> TRUE, startTime |-> HM(8, 0), endTime |-> HM(16, 0), timezone |-> "UTC"]
\* the overnight window of a recipient who lives in another zone
QuietAbroad == [QuietOvernight EXCEPT !.timezone = "Asia/Dubai"]

PreferenceBodies ==
    { Prefs(TRUE, TRUE, QuietOff, tok, sub) :
        tok \in {None, PushToken}, sub \in {None, Subscription} }
    \cup { Prefs(TRUE, TRUE, qh, PushToken, Subscription) :
             qh \in {QuietOvernight, QuietSameDay} }
    \cup { Prefs(FALSE, TRUE, QuietOff, PushToken, Subscription),
           Prefs(TRUE, FALSE, QuietOff, PushToken, Subscription),
           Prefs(TRUE, TRUE, QuietOvernight, None, None),
           Prefs(TRUE, TRUE, QuietAbroad, PushToken, Subscription) }

----------------------------------------------------------------------------
Init ==
    /\ now = 0
    /\ prefs = [u \in {} |-> DefaultPreferences]
    /\ notifs = <<>>
    /\ last = Idle
    /\ quantity = NoMaterial
    /\ calls = NoCalls

\* the clock advances
Tick ==
    /\ now + TickLen <= MaxTime
    /\ now' = now + TickLen
    /\ last' = Idle
    /\ UNCHANGED <<prefs, notifs, quantity, calls>>

\* a business caller: NotificationPreferences.sendNotificationIfAllowed
SendIfAllowed(u, data, storeOK, pushOK, webOK) ==
    LET r == sendNotificationIfAllowed(prefs, notifs, u, data, now, storeOK, pushOK, webOK)
    IN /\ Len(r.notifs) <= MaxNotifs
       /\ prefs' = r.prefs
       /\ notifs' = r.notifs
       /\ last' = Outcome("sendIfAllowed", r.ret, r.id, r.sent, r.acked)
       /\ UNCHANGED <<now, quantity, calls>>

\* a business caller: Notification.createAndSend
CreateAndSend(data, storeOK, pushOK, webOK) ==
    LET r == createAndSend(notifs, data, now, storeOK, pushOK, webOK)
    IN /\ Len(r.notifs) <= MaxNotifs
       /\ notifs' = r.notifs
       /\ last' = Outcome("createAndSend", r.ret, r.id, r.sent, r.acked)
       /\ UNCHANGED <<now, prefs, quantity, calls>>

\* (variant: the record is looked up by its id alone)
MarkRead_Unscoped(u, id) ==
    /\ id \in 1..Len(notifs)
    /\ notifs' = [notifs EXCEPT ![id] = markAsRead(@, now)]
    /\ last' = Outcome("markAsRead", notifs[id].status, id, {}, {})
    /\ UNCHANGED <<now, prefs, quantity, calls>>

\* PUT /:id/read; the outcome keeps the status the record had before
MarkRead(u, id) ==
    /\ id \in 1..Len(notifs)
    /\ notifs[id].recipient = u
    /\ notifs' = [notifs EXCEPT ![id] = markAsRead(@, now)]
    /\ last' = Outcome("markAsRead", notifs[id].status, id, {}, {})
    /\ UNCHANGED <<now, prefs, quantity, calls>>

\* PUT /read-all
MarkAllRead(u) ==
    /\ notifs' = [i \in 1..Len(notifs) |->
                    IF notifs[i].recipient = u /\ notifs[i].status # "read"
                    THEN [notifs[i] EXCEPT !.status = "read", !.readAt = now]
                    ELSE notifs[i]]
    /\ last' = Idle
    /\ UNCHANGED <<now, prefs, quantity, calls>>

\* DELETE /:id
Archive(u, id) ==
    /\ id \in 1..Len(notifs)
    /\ notifs[id].recipient = u
    /\ notifs' = [notifs EXCEPT ![id].status = "archived"]
    /\ last' = Idle
    /\ UNCHANGED <<now, prefs, quantity, calls>>

\* PUT /preferences: findOneAndUpdate({ user }, body, { upsert: true })
UpdatePreferences(u, body) ==
    /\ prefs' = [v \in DOMAIN prefs \cup {u} |-> IF v = u THEN body ELSE prefs[v]]
    /\ last' = Idle
    /\ UNCHANGED <<now, notifs, quantity, calls>>

\* GET /preferences
GetPreferences(u) ==
    /\ prefs' = getOrCreateForUser(prefs, u)
    /\ last' = Idle
    /\ UNCHANGED <<now, notifs, quantity, calls>>

\* (variant: the new token is also written to the recipient's pending records)
UpdatePushToken_Backfills(u, token) ==
    /\ prefs' = [getOrCreateForUser(prefs, u) EXCEPT ![u].pushToken = token]
    /\ notifs' = [i \in 1..Len(notifs) |->
                    IF notifs[i].recipient = u /\ notifs[i].status = "pending"
                    THEN [notifs[i] EXCEPT !.pushToken = token]
                    ELSE notifs[i]]
    /\ last' = Idle
    /\ UNCHANGED <<now, quantity, calls>>

\* POST /preferences/push-token: getOrCreateForUser, then updatePushToken
UpdatePushToken(u, token) ==
    /\ prefs' = [getOrCreateForUser(prefs, u) EXCEPT ![u].pushToken = token]
    /\ last' = Idle
    /\ UNCHANGED <<now, notifs, quantity, calls>>

\* POST /preferences/web-push-subscription: getOrCreateForUser, then
\* updateWebPushSubscription
UpdateWebPushSubscription(u, subscription) ==
    /\ prefs' = [getOrCreateForUser(prefs, u) EXCEPT
                   ![u].webPushSubscription = subscription]
    /\ last' = Idle
    /\ UNCHANGED <<now, notifs, quantity, calls>>

\* (variant: the query has no status filter)
DueIds_AnyStatus(ns, t) ==
    { i \in 1..Len(ns) : /\ ns[i].scheduledFor # NoDate
                         /\ ns[i].scheduledFor <= t }

\* (variant: the query does not compare scheduledFor with the current time)
DueIds_IgnoresTime(ns, t) ==
    { i \in 1..Len(ns) : /\ ns[i].scheduledFor # NoDate
                         /\ ns[i].status \in {"pending", "sent"} }

\* Notification.find({ scheduledFor: { $exists: true, $lte: now },
\*                     status: { $in: ['pending', 'sent'] } })
DueIds(ns, t) ==
    { i \in 1..Len(ns) : /\ ns[i].scheduledFor # NoDate
                         /\ ns[i].scheduledFor <= t
                         /\ ns[i].status \in {"pending", "sent"} }

\* .limit(100)
BatchLimit == 100

\* The query has no sort: the documents come in the order of the plan the
\* server picks, a scan of the status index or of the scheduledFor index
\* (both declared by the schema); equal keys come in insertion order.
PlanOrders == {"status", "scheduledFor"}

StatusRank(st) == IF st = "pending" THEN 1 ELSE 2

Before(plan, ns, i, j) ==
    IF plan = "status"
    THEN \/ StatusRank(ns[i].status) < StatusRank(ns[j].status)
         \/ ns[i].status = ns[j].status /\ i < j
    ELSE \/ ns[i].scheduledFor < ns[j].scheduledFor
         \/ ns[i].scheduledFor = ns[j].scheduledFor /\ i < j

\* (variant: no .limit(100))
Batches_NoLimit(ns, t) == { DueIds(ns, t) }

\* the documents one sweep can load: the first BatchLimit of the plan's order
Batches(ns, t) ==
    LET due == DueIds(ns, t)
    IN IF Cardinality(due) <= BatchLimit THEN { due }
       ELSE { { i \in due :
                  Cardinality({ j \in due : Before(plan, ns, j, i) }) < BatchLimit }
              : plan \in PlanOrders }

\* Notification.processScheduledNotifications on the loaded batch: every
\* document gets the two channel attempts; a channel that throws is logged
processScheduledNotifications(ns, batch, pushOK, webOK) ==
    LET a == [i \in batch |-> AttemptChannels(ns[i], pushOK[i], webOK[i])]
    IN [ notifs |-> [i \in 1..Len(ns) |-> IF i \in batch THEN a[i].doc ELSE ns[i]],
         ret |-> "ok",
         sent |-> UNION {{<<i, a[i].calls[k]>> : k \in 1..Len(a[i].calls)} : i \in batch},
         acked |-> UNION {{<<i, c>> : c \in a[i].acked} : i \in batch} ]

\* the 15-minute cron job of initializeScheduledJobs
ProcessScheduledNotifications(batch, pushOK, webOK) ==
    /\ batch \in Batches(notifs, now)
    /\ LET r == processScheduledNotifications(notifs, batch, pushOK, webOK)
       IN /\ notifs' = r.notifs
          /\ last' = Outcome("sweep", r.ret, 0, r.sent, r.acked)
    /\ UNCHANGED <<now, prefs, quantity, calls>>

Next ==
    \/ Tick
    \/ \E u \in Users : \E data \in SendPayloads(u) : \E o \in CallOutcomes :
         SendIfAllowed(u, data, o[1], o[2], o[3])
    \/ \E data \in DirectPayloads(now) : \E o \in CallOutcomes :
         CreateAndSend(data, o[1], o[2], o[3])
    \/ \E u \in Users : \E id \in 1..MaxNotifs : MarkRead(u, id)
    \/ \E u \in Users : MarkAllRead(u)
    \/ \E u \in Users : \E id \in 1..MaxNotifs : Archive(u, id)
    \/ \E u \in Users : \E body \in PreferenceBodies : UpdatePreferences(u, body)
    \/ \E u \in Users : GetPreferences(u)
    \/ \E u \in Users : UpdatePushToken(u, PushToken)
    \/ \E u \in Users : UpdateWebPushSubscription(u, Subscription)
    \/ \E batch \in SUBSET (1..MaxNotifs) :
         \E pushOK, webOK \in [batch -> BOOLEAN] :
           ProcessScheduledNotifications(batch, pushOK, webOK)

Spec == Init /\ [][Next]_vars

----------------------------------------------------------------------------
\* The backlog: one recipient whose quiet hours defer every non-urgent send
\* of the first night, the sweeps that follow, the recipient moving the end
\* of the window once the backlog has reached the batch limit, and reading
\* or archiving the first record.

BulkTickLen == 4 * 60

QuietEarly ==
    [enabled |-> TRUE, startTime |-> HM(22, 0), endTime |-> HM(4, 0), timezone |-> "UTC"]

BulkUser == CHOOSE u \in Users : TRUE

\* the first record may be urgent, the backlog is not
BulkPayloads(n) ==
    { Payload(BulkUser, "T", "M", "reminder", pr) :
        pr \in IF n = 0 THEN {"medium", "urgent"} ELSE {"medium"} }

BulkInit ==
    /\ now = 0
    /\ prefs = [u \in {BulkUser} |->
                  Prefs(TRUE, TRUE, QuietOvernight, PushToken, Subscription)]
    /\ notifs = <<>>
    /\ last = Idle
    /\ quantity = NoMaterial
    /\ calls = NoCalls

\* a business caller: NotificationPreferences.sendNotificationIfAllowed
BulkSend(data, pushOK, webOK) ==
    LET r == sendNotificationIfAllowed(prefs, notifs, BulkUser, data, now,
                                       TRUE, pushOK, webOK)
    IN /\ now = 0
       /\ Len(r.notifs) <= MaxBulk
       /\ prefs' = r.prefs
       /\ notifs' = r.notifs
       /\ last' = Outcome("sendIfAllowed", r.ret, r.id, r.sent, r.acked)
       /\ UNCHANGED <<now, quantity, calls>>

\* PUT /preferences moving the end of the window to 04:00
BulkPreferences ==
    /\ Len(notifs) >= BatchLimit
    /\ UpdatePreferences(BulkUser,
                         Prefs(TRUE, TRUE, QuietEarly, PushToken, Subscription))

\* the clock advances between two operations
BulkTick ==
    /\ now + BulkTickLen <= MaxBulkTicks * BulkTickLen
    /\ now' = now + BulkTickLen
    /\ UNCHANGED <<prefs, notifs, last, quantity, calls>>

\* the cron job; every channel send of the sweep has the same outcome
BulkSweep(ok) ==
    \E batch \in Batches(notifs, now) :
        ProcessScheduledNotifications(batch, [i \in batch |-> ok], [i \in batch |-> ok])

BulkNext ==
    \/ BulkTick
    \/ \E data \in BulkPayloads(Len(notifs)) : \E ok \in BOOLEAN :
         /\ (Len(notifs) > 0 => ~ok)
         /\ BulkSend(data, ok, ok)
    \/ BulkPreferences
    \/ \E ok \in BOOLEAN : BulkSweep(ok)
    \/ MarkRead(BulkUser, 1)
    \/ Archive(BulkUser, 1)

BulkSpec == BulkInit /\ [][BulkNext]_vars

----------------------------------------------------------------------------
\* The backlog under a scheduler that keeps running: the night's sends, the
\* clock, and the sweeps of the cron job.  The targets of the first
\* BatchLimit records never acknowledge (a token the push service rejects, a
\* subscription that is gone); the targets of the records after them do.

LiveSend ==
    \E data \in BulkPayloads(Len(notifs)) :
        BulkSend(data, Len(notifs) >= BatchLimit, Len(notifs) >= BatchLimit)

LiveTick ==
    /\ now + BulkTickLen <= MaxBulkTicks * BulkTickLen
    /\ now' = now + BulkTickLen
    /\ last' = Idle
    /\ UNCHANGED <<prefs, notifs, quantity, calls>>

LiveSweep ==
    \E batch \in Batches(notifs, now) :
        ProcessScheduledNotifications(batch, [i \in batch |-> i > BatchLimit],
                                      [i \in batch |-> i > BatchLimit])

LiveNext ==
    \/ LiveSend
    \/ LiveTick
    \/ LiveSweep

\* node-cron fires the sweep every 15 minutes for as long as the process
\* runs, and the clock advances
LiveSpec ==
    /\ BulkInit
    /\ [][LiveNext]_vars
    /\ WF_vars(LiveTick)
    /\ WF_vars(LiveSweep)

----------------------------------------------------------------------------
\* Two recipients: notifications are created for both, and one of them
\* marks, archives and marks all as read, with any id in the request.

ScopeUser == CHOOSE u \in Users : TRUE
OtherUser == "u2"

\* a business caller: NotificationPreferences.sendNotificationIfAllowed
ScopeSend(u, pushOK, webOK) ==
    \E r \in { sendNotificationIfAllowed(prefs, notifs, u,
                                         Payload(u, "T", "M", "reminder", "medium"),
                                         now, TRUE, pushOK, webOK) } :
       /\ Len(r.notifs) <= MaxScopeNotifs
       /\ prefs' = r.prefs
       /\ notifs' = r.notifs
       /\ last' = Outcome("sendIfAllowed", r.ret, r.id, r.sent, r.acked)
       /\ UNCHANGED <<now, quantity, calls>>

ScopeNext ==
    \/ \E u \in {ScopeUser, OtherUser} : \E pushOK, webOK \in BOOLEAN :
         ScopeSend(u, pushOK, webOK)
    \/ \E u \in {ScopeUser, OtherUser} :
         UpdatePreferences(u, Prefs(TRUE, TRUE, QuietOff, PushToken, None))
    \/ \E id \in 1..MaxScopeNotifs : MarkRead(ScopeUser, id)
    \/ MarkAllRead(ScopeUser)
    \/ \E id \in 1..MaxScopeNotifs : Archive(ScopeUser, id)

ScopeSpec == Init /\ [][ScopeNext]_vars

----------------------------------------------------------------------------
\* A recipient whose preferences stay as they are, with quiet hours from
\* 22:00 to 08:00 and both targets: sends and sweeps over a day and the next
\* midnight, on a clock of quarter days.

NightTickLen == 6 * 60

NightTick ==
    /\ now + NightTickLen <= MaxNightTicks * NightTickLen
    /\ now' = now + NightTickLen
    /\ last' = Idle
    /\ UNCHANGED <<prefs, notifs, quantity, calls>>

\* a business caller: NotificationPreferences.sendNotificationIfAllowed
NightSend(data, pushOK, webOK) ==
    \E r \in { sendNotificationIfAllowed(prefs, notifs, BulkUser, data, now,
                                         TRUE, pushOK, webOK) } :
       /\ Len(r.notifs) <= MaxNightNotifs
       /\ prefs' = r.prefs
       /\ notifs' = r.notifs
       /\ last' = Outcome("sendIfAllowed", r.ret, r.id, r.sent, r.acked)
       /\ UNCHANGED <<now, quantity, calls>>

NightNext ==
    \/ NightTick
    \/ \E pr \in {"medium", "urgent"} : \E pushOK, webOK \in BOOLEAN :
         NightSend(Payload(BulkUser, "T", "M", "reminder", pr), pushOK, webOK)
    \/ \E batch \in SUBSET (1..MaxNightNotifs) :
         \E pushOK, webOK \in [batch -> BOOLEAN] :
           ProcessScheduledNotifications(batch, pushOK, webOK)

NightSpec == BulkInit /\ [][NightNext]_vars

----------------------------------------------------------------------------
\* The threshold checks: the two cron jobs of 09:00 and 18:00 on a clock of
\* half days, next to the recipient's preference updates.

CapTickLen == 12 * 60

CapTick ==
    /\ now + CapTickLen <= MaxCapTicks * CapTickLen
    /\ now' = now + CapTickLen
    /\ last' = Idle
    /\ UNCHANGED <<prefs, notifs, quantity, calls>>

\* cron '0 9,18 * * *': checkAndNotifyExceededContracts
CheckExceededContracts(exceeded, storeOK, pushOK, webOK) ==
    \E r \in { checkAndNotifyExceededContracts(prefs, notifs, exceeded, now,
                                             storeOK, pushOK, webOK) } :
       /\ Len(r.notifs) <= MaxCapNotifs
       /\ prefs' = r.prefs
       /\ notifs' = r.notifs
       /\ last' = Outcome("checkContracts",
                          IF r.notified > 0 THEN "notified" ELSE "ok",
                          0, r.sent, r.acked)
       /\ UNCHANGED <<now, quantity, calls>>

\* cron '0 9,18 * * *': checkAndNotifyExceededInventory
CheckExceededInventory(exceeded, storeOK, pushOK, webOK) ==
    \E r \in { checkAndNotifyExceededInventory(prefs, notifs, exceeded, now,
                                             storeOK, pushOK, webOK) } :
       /\ Len(r.notifs) <= MaxCapNotifs
       /\ prefs' = r.prefs
       /\ notifs' = r.notifs
       /\ last' = Outcome("checkInventory",
                          IF r.notified > 0 THEN "notified" ELSE "ok",
                          0, r.sent, r.acked)
       /\ UNCHANGED <<now, quantity, calls>>

CapNext ==
    \/ CapTick
    \/ \E exceeded \in BOOLEAN : \E o \in CallOutcomes :
         CheckExceededContracts(exceeded, o[1], o[2], o[3])
    \/ \E exceeded \in BOOLEAN : \E o \in CallOutcomes :
         CheckExceededInventory(exceeded, o[1], o[2], o[3])
    \/ \E u \in Users : \E body \in PreferenceBodies : UpdatePreferences(u, body)
    \/ \E u \in Users : GetPreferences(u)
    \/ \E u \in Users : UpdatePushToken(u, PushToken)
    \/ \E u \in Users : UpdateWebPushSubscription(u, Subscription)

CapSpec == Init /\ [][CapNext]_vars

----------------------------------------------------------------------------
\* The hourly cron jobs of the deadline checks and the daily summaries over
\* one day and the first hour of the next, on a clock of quarter days, next
\* to the recipient's preference updates.

DeadlineTickLen == 6 * 60

DeadlineTick ==
    /\ now + DeadlineTickLen <= MaxDeadlineTicks * DeadlineTickLen
    /\ now' = now + DeadlineTickLen
    /\ last' = Idle
    /\ UNCHANGED <<prefs, notifs, quantity, calls>>

\* one run of a cron job whose function returned r
Checked(op, r) ==
    /\ Len(r.notifs) <= MaxDeadlineNotifs
    /\ prefs' = r.prefs
    /\ notifs' = r.notifs
    /\ last' = Outcome(op, IF r.notified > 0 THEN "notified" ELSE "ok",
                       0, r.sent, r.acked)
    /\ UNCHANGED <<now, quantity, calls>>

\* cron '0 * * * *': checkAndNotifyApproachingDeadlines
CheckApproachingDeadlines(storeOK, pushOK, webOK) ==
    \E r \in { checkAndNotifyApproachingDeadlines(prefs, notifs, now,
                                                  storeOK, pushOK, webOK) } :
       Checked("checkApproaching", r)

\* cron '0 * * * *': checkAndNotifyOverdueDeadlines
CheckOverdueDeadlines(storeOK, pushOK, webOK) ==
    \E r \in { checkAndNotifyOverdueDeadlines(prefs, notifs, now,
                                              storeOK, pushOK, webOK) } :
       Checked("checkOverdue", r)

\* cron '0 * * * *': sendDailySummaries
SendDailySummaries(storeOK, pushOK, webOK) ==
    \E r \in { sendDailySummaries(prefs, notifs, now, storeOK, pushOK, webOK) } :
       Checked("dailySummaries", r)

\* bodies of PUT /preferences that set the reminder settings
ReminderPrefs(qh, overdue, enabled, repeat, summary) ==
    [ Prefs(TRUE, TRUE, qh, PushToken, None) EXCEPT
        !.notificationTypes["deadline_overdue"] = overdue,
        !.reminderSettings.deadlineReminders.enabled = enabled,
        !.reminderSettings.deadlineReminders.repeat = repeat,
        !.reminderSettings.dailySummary.enabled = summary ]

DeadlineBodies ==
    { ReminderPrefs(QuietOff, TRUE, TRUE, repeat, summary) : repeat, summary \in BOOLEAN }
    \cup { ReminderPrefs(QuietOff, FALSE, FALSE, FALSE, FALSE),
           ReminderPrefs(QuietSameDay, TRUE, TRUE, FALSE, TRUE) }

DeadlineNext ==
    \/ DeadlineTick
    \/ \E o \in CallOutcomes : CheckApproachingDeadlines(o[1], o[2], o[3])
    \/ \E o \in CallOutcomes : CheckOverdueDeadlines(o[1], o[2], o[3])
    \/ \E o \in CallOutcomes : SendDailySummaries(o[1], o[2], o[3])
    \/ \E u \in Users : \E body \in DeadlineBodies : UpdatePreferences(u, body)

DeadlineSpec == Init /\ [][DeadlineNext]_vars

----------------------------------------------------------------------------
\* Low stock: the routes that write Material.quantity and then call
\* notifyLowStockIfNeeded, next to the recipient's preference updates.  The
\* received records are not kept: the quantity a record carries is an input.

\* the material is saved with quantity q, then the notifier runs
StockStep(op, q, prevQuantity, o) ==
    \E r \in { notifyLowStockIfNeeded(prefs, notifs, q, prevQuantity, now,
                                      o[1], o[2], o[3]) } :
       /\ q \in 0..MaxQuantity
       /\ Len(r.notifs) <= MaxStockNotifs
       /\ quantity' = q
       /\ prefs' = r.prefs
       /\ notifs' = r.notifs
       /\ last' = Outcome(op, r.ret, 0, r.sent, r.acked)
       /\ UNCHANGED <<now, calls>>

\* POST /materials
MaterialCreate(q, o) ==
    /\ quantity = NoMaterial
    /\ calls = NoCalls
    /\ StockStep("materialCreate", q, Infinity, o)

\* PUT /materials/:id
MaterialUpdate(q, o) ==
    /\ quantity # NoMaterial
    /\ StockStep("materialUpdate", q, quantity, o)

\* POST /received
ReceivedCreate(amount, o) ==
    /\ quantity # NoMaterial
    /\ StockStep("receivedCreate", quantity + amount, quantity, o)

\* PUT /received/:id
ReceivedUpdate(old, amount, o) ==
    /\ quantity # NoMaterial
    /\ StockStep("receivedUpdate", quantity - old + amount, quantity, o)

\* DELETE /received/:id
ReceivedDelete(old, o) ==
    /\ quantity # NoMaterial
    /\ StockStep("receivedDelete", quantity - old, quantity, o)

StockOps ==
    {"materialCreate", "materialUpdate", "receivedCreate", "receivedUpdate",
     "receivedDelete"}

\* quantities of received records
Amounts == 1..2

\* outcomes of one update: every channel acknowledges, every channel throws,
\* the store fails
StockOutcomes == { <<TRUE, TRUE, TRUE>>, <<TRUE, FALSE, FALSE>>, <<FALSE, TRUE, TRUE>> }

\* bodies of PUT /preferences: both targets, low_stock toggled off, quiet hours
StockBodies ==
    { Prefs(TRUE, TRUE, QuietOff, PushToken, Subscription),
      Prefs(TRUE, FALSE, QuietOff, PushToken, Subscription),
      Prefs(TRUE, TRUE, QuietOvernight, PushToken, Subscription) }

StockNext ==
    \/ \E q \in 0..MaxQuantity : \E o \in StockOutcomes : MaterialCreate(q, o)
    \/ \E q \in 0..MaxQuantity : \E o \in StockOutcomes : MaterialUpdate(q, o)
    \/ \E a \in Amounts : \E o \in StockOutcomes : ReceivedCreate(a, o)
    \/ \E old, a \in Amounts : \E o \in StockOutcomes : ReceivedUpdate(old, a, o)
    \/ \E old \in Amounts : \E o \in StockOutcomes : ReceivedDelete(old, o)
    \/ \E u \in Users : \E body \in StockBodies : UpdatePreferences(u, body)

StockSpec == Init /\ [][StockNext]_vars

----------------------------------------------------------------------------
\* Quiet hours as a function of the window and the minute: the windows are
\* drawn at the start, the clock runs minute by minute, and the method is
\* applied to the current minute.

QuietTimes == { HM(0, 0), HM(7, 30), HM(8, 0), HM(12, 0), HM(22, 0), HM(23, 59) }

QuietWindows ==
    { [enabled |-> en, startTime |-> st, endTime |-> e, timezone |-> "UTC"] :
        en \in BOOLEAN, st \in QuietTimes, e \in QuietTimes }

QuietInit ==
    /\ now = 0
    /\ prefs \in { [u \in Users |-> Prefs(TRUE, TRUE, qh, PushToken, Subscription)] :
                    qh \in QuietWindows }
    /\ notifs = <<>>
    /\ last = Idle
    /\ quantity = NoMaterial
    /\ calls = NoCalls

\* one minute passes
QuietTick ==
    /\ now + 1 < MaxQuietDays * DayMinutes
    /\ now' = now + 1
    /\ last' = Idle
    /\ UNCHANGED <<prefs, notifs, quantity, calls>>

\* preferences.isInQuietHours() at the current minute
QuietProbe(u) ==
    /\ last' = Outcome("isInQuietHours",
                       IF isInQuietHours(prefs[u], now) THEN "true" ELSE "false",
                       0, {}, {})
    /\ UNCHANGED <<now, prefs, notifs, quantity, calls>>

QuietNext ==
    \/ QuietTick
    \/ \E u \in Users : QuietProbe(u)

QuietSpec == QuietInit /\ [][QuietNext]_vars

----------------------------------------------------------------------------
\* Interleavings: sendNotificationIfAllowed, getOrCreateForUser and the sweep
\* followed await by await in two processes, next to the recipient's
\* requests, which run to completion between two of their steps.

\* (variant: the collection has no unique index on user; findOne keeps
\* returning the first document)
InsertPreferences_NoUniqueIndex(ps, u) ==
    [ prefs |-> getOrCreateForUser(ps, u), ret |-> "ok" ]

\* preferences.save() of a new NotificationPreferences({ user }): the unique
\* index on user rejects a second document (E11000)
InsertPreferences(ps, u) ==
    IF u \in DOMAIN ps
    THEN [ prefs |-> ps, ret |-> "E11000" ]
    ELSE [ prefs |-> getOrCreateForUser(ps, u), ret |-> "ok" ]

\* the notificationData sendNotificationIfAllowed hands to createAndSend:
\* scheduledFor inside quiet hours, the targets of the preferences
NotificationData(p, data, t) ==
    LET d1 == IF isInQuietHours(p, t) /\ data.priority # "urgent"
              THEN [data EXCEPT !.scheduledFor = QuietHoursEnd(p, t)]
              ELSE data
        d2 == IF p.pushToken # None THEN [d1 EXCEPT !.pushToken = p.pushToken] ELSE d1
    IN IF p.webPushSubscription # None
       THEN [d2 EXCEPT !.webPushSubscription = p.webPushSubscription]
       ELSE d2

\* document.save() of a loaded document: the paths changed since it was
\* loaded (or last saved) are written over the stored document
SaveModified(stored, before, after) ==
    [f \in DOMAIN stored |-> IF after[f] # before[f] THEN after[f] ELSE stored[f]]

\* the ids of a batch in the order the cursor returns them
Ascending(batch) ==
    CHOOSE q \in [1..Cardinality(batch) -> batch] :
        \A i, j \in 1..Cardinality(batch) : i < j => q[i] < q[j]

\* a call that has returned (or thrown): its locals are gone
Returned(call, ret, id) ==
    [NoCall EXCEPT !.op = call.op, !.u = call.u, !.ret = ret, !.id = id]

\* the call of process c with the given fields changed
Moved(c, call) == [calls EXCEPT ![c] = call]

\* the records the store holds, counting those the calls in flight are
\* about to save
Expected ==
    Len(notifs)
    + Cardinality({d \in Procs : calls[d].pc \in {"findOne", "insert", "create"}
                                  /\ calls[d].op = "sendIfAllowed"})

\* a business caller enters sendNotificationIfAllowed(u, data)
RaceStartSend(c, u, data) ==
    /\ calls[c].pc = "done"
    /\ Expected < MaxRaceNotifs
    /\ calls' = Moved(c, [NoCall EXCEPT !.op = "sendIfAllowed", !.pc = "findOne",
                                        !.u = u, !.data = data])
    /\ UNCHANGED <<now, prefs, notifs, last, quantity>>

\* GET /preferences enters getOrCreateForUser(u)
RaceStartGet(c, u) ==
    /\ calls[c].pc = "done"
    /\ calls' = Moved(c, [NoCall EXCEPT !.op = "getOrCreate", !.pc = "findOne", !.u = u])
    /\ UNCHANGED <<now, prefs, notifs, last, quantity>>

\* getOrCreateForUser: await this.findOne({ user: userId })
RaceFindOne(c) ==
    /\ calls[c].pc = "findOne"
    /\ calls' = Moved(c, IF calls[c].u \in DOMAIN prefs
                         THEN IF calls[c].op = "sendIfAllowed"
                              THEN [calls[c] EXCEPT !.p = prefs[calls[c].u],
                                                    !.pc = "create"]
                              ELSE Returned(calls[c], "ok", 0)
                         ELSE [calls[c] EXCEPT !.pc = "insert"])
    /\ UNCHANGED <<now, prefs, notifs, last, quantity>>

\* getOrCreateForUser: await preferences.save(); a rejection ends the call
RaceInsert(c) ==
    /\ calls[c].pc = "insert"
    /\ \E r \in { InsertPreferences(prefs, calls[c].u) } :
         /\ prefs' = r.prefs
         /\ calls' = Moved(c, IF r.ret # "ok" THEN Returned(calls[c], "error", 0)
                              ELSE IF calls[c].op = "sendIfAllowed"
                              THEN [calls[c] EXCEPT !.p = DefaultPreferences,
                                                    !.pc = "create"]
                              ELSE Returned(calls[c], "ok", 0))
    /\ UNCHANGED <<now, notifs, last, quantity>>

\* sendNotificationIfAllowed from the preferences on, and createAndSend up to
\* its first save and the early return for a scheduledFor in the future
RaceCreate(c) ==
    /\ calls[c].pc = "create"
    /\ \E d \in { NotificationData(calls[c].p, calls[c].data, now) } :
         IF ~isNotificationEnabled(calls[c].p, calls[c].data.type)
         THEN /\ calls' = Moved(c, Returned(calls[c], "null", 0))
              /\ UNCHANGED notifs
         ELSE IF ~Validates(d)
         THEN /\ calls' = Moved(c, Returned(calls[c], "error", 0))
              /\ UNCHANGED notifs
         ELSE \E doc \in { [NewNotification(d) EXCEPT !.createdAt = now] } :
              /\ notifs' = Append(notifs, doc)
              /\ calls' = Moved(c, IF doc.scheduledFor # NoDate /\ doc.scheduledFor > now
                                   THEN Returned(calls[c], "record", Len(notifs) + 1)
                                   ELSE [calls[c] EXCEPT !.pc = "push", !.doc = doc,
                                                         !.id = Len(notifs) + 1])
    /\ UNCHANGED <<now, prefs, last, quantity>>

\* the push attempt on the document the call holds: sendExpoPushNotification,
\* then markAsDelivered(tickets), whose save writes the changed paths
RacePush(c, ok) ==
    /\ calls[c].pc = "push"
    /\ IF calls[c].doc.pushToken # None /\ ExpoAcks(calls[c].doc.pushToken, ok)
       THEN \E after \in { markAsDelivered(calls[c].doc, "tickets") } :
              /\ notifs' = [notifs EXCEPT ![calls[c].id] =
                                SaveModified(@, calls[c].doc, after)]
              /\ calls' = Moved(c, [calls[c] EXCEPT !.doc = after, !.delivered = TRUE,
                                                    !.pc = "web"])
       ELSE /\ calls' = Moved(c, [calls[c] EXCEPT !.pc = "web"])
            /\ UNCHANGED notifs
    /\ UNCHANGED <<now, prefs, last, quantity>>

\* the call after the web attempt: createAndSend returns the record, the
\* sweep goes on to the next document it loaded
Continue(call) ==
    IF call.op = "sendIfAllowed" THEN Returned(call, "record", call.id)
    ELSE IF Len(call.queue) > 1
    THEN [call EXCEPT !.queue = Tail(@), !.id = call.queue[2],
                      !.doc = call.loaded[call.queue[2]], !.delivered = FALSE,
                      !.pc = "push"]
    ELSE Returned(call, "ok", 0)

\* the web-push attempt: sendWebPushNotification, webPushResponse = resp,
\* then markAsDelivered(resp) if the push did not deliver, else save()
RaceWeb(c, ok) ==
    /\ calls[c].pc = "web"
    /\ IF /\ calls[c].doc.webPushSubscription # None
          /\ WebPushAcks(calls[c].doc.webPushSubscription, ok)
       THEN \E after \in { IF calls[c].delivered
                            THEN [calls[c].doc EXCEPT !.webPushResponse = "resp"]
                            ELSE markAsDelivered(
                                   [calls[c].doc EXCEPT !.webPushResponse = "resp"],
                                   "resp") } :
              /\ notifs' = [notifs EXCEPT ![calls[c].id] =
                                SaveModified(@, calls[c].doc, after)]
              /\ calls' = Moved(c, Continue(calls[c]))
       ELSE /\ calls' = Moved(c, Continue(calls[c]))
            /\ UNCHANGED notifs
    /\ UNCHANGED <<now, prefs, last, quantity>>

\* the cron job enters processScheduledNotifications: the find loads the
\* documents the loop then works on
RaceStartSweep(c) ==
    /\ calls[c].pc = "done"
    /\ \E batch \in Batches(notifs, now) :
         /\ batch # {}
         /\ calls' = Moved(c, [NoCall EXCEPT
                                 !.op = "sweep", !.pc = "push",
                                 !.queue = Ascending(batch), !.loaded = notifs,
                                 !.id = Ascending(batch)[1],
                                 !.doc = notifs[Ascending(batch)[1]]])
    /\ UNCHANGED <<now, prefs, notifs, last, quantity>>

\* payloads of the concurrent callers: a reminder and the contract check's
RacePayloads(u) ==
    { Payload(u, "T", "M", "reminder", "medium"),
      ExceededPayload(u, "contract_exceeded", ContractId) }

\* bodies of PUT /preferences: both targets, with and without quiet hours
RaceBodies ==
    { Prefs(TRUE, TRUE, QuietOff, PushToken, Subscription),
      Prefs(TRUE, TRUE, QuietOvernight, PushToken, None) }

\* the lazy creation of the preferences under concurrent callers
RaceNext ==
    \/ \E c \in Procs : \E u \in Users : \E data \in RacePayloads(u) :
         RaceStartSend(c, u, data)
    \/ \E c \in Procs : \E u \in Users : RaceStartGet(c, u)
    \/ \E c \in Procs : RaceFindOne(c)
    \/ \E c \in Procs : RaceInsert(c)
    \/ \E c \in Procs : RaceCreate(c)
    \/ \E c \in Procs : \E ok \in BOOLEAN : RacePush(c, ok)
    \/ \E c \in Procs : \E ok \in BOOLEAN : RaceWeb(c, ok)
    \/ \E u \in Users : \E body \in RaceBodies : UpdatePreferences(u, body)

RaceSpec == Init /\ [][RaceNext]_vars

\* business callers alone: sends that overlap, nothing else touching the
\* preferences
SendRaceNext ==
    \/ \E c \in Procs : \E u \in Users : \E data \in RacePayloads(u) :
         RaceStartSend(c, u, data)
    \/ \E c \in Procs : RaceFindOne(c)
    \/ \E c \in Procs : RaceInsert(c)
    \/ \E c \in Procs : RaceCreate(c)
    \/ \E c \in Procs : \E ok \in BOOLEAN : RacePush(c, ok)
    \/ \E c \in Procs : \E ok \in BOOLEAN : RaceWeb(c, ok)

SendRaceSpec == Init /\ [][SendRaceNext]_vars

\* a delivery attempt, of createAndSend or of the sweep, overlapping the
\* recipient's requests on the record
OverlapNext ==
    \/ Tick
    \/ \E c \in Procs : \E u \in Users : \E data \in RacePayloads(u) :
         /\ Expected < MaxNotifs
         /\ RaceStartSend(c, u, data)
    \/ \E c \in Procs : RaceFindOne(c)
    \/ \E c \in Procs : RaceInsert(c)
    \/ \E c \in Procs : RaceCreate(c)
    \/ \E c \in Procs : \E ok \in BOOLEAN : RacePush(c, ok)
    \/ \E c \in Procs : \E ok \in BOOLEAN : RaceWeb(c, ok)
    \/ \E c \in Procs : RaceStartSweep(c)
    \/ \E u \in Users : \E body \in RaceBodies : UpdatePreferences(u, body)
    \/ \E u \in Users : \E id \in 1..MaxNotifs : MarkRead(u, id)
    \/ \E u \in Users : MarkAllRead(u)
    \/ \E u \in Users : \E id \in 1..MaxNotifs : Archive(u, id)

OverlapSpec == Init /\ [][OverlapNext]_vars

----------------------------------------------------------------------------
\* Reference predicates of the properties, stated on the stored data and on
\* minutes of the day

\* the preferences a call for u works with
PrefsOf(u) == IF u \in DOMAIN prefs THEN prefs[u] ELSE DefaultPreferences

RefEnabled(p, type) ==
    /\ p.pushEnabled
    /\ type \in DOMAIN p.notificationTypes
    /\ p.notificationTypes[type]

RefMinuteOfDay(s) == s.h * 60 + s.m

RefInQuietHours(p, t) ==
    /\ p.quietHours.enabled
    /\ LET s == RefMinuteOfDay(p.quietHours.startTime)
           e == RefMinuteOfDay(p.quietHours.endTime)
           m == t % DayMinutes
       IN IF s < e THEN s <= m /\ m <= e ELSE m >= s \/ m <= e

\* the next occurrence of quietHours.endTime strictly after t
RefNextEnd(p, t) ==
    LET today == t - (t % DayMinutes) + RefMinuteOfDay(p.quietHours.endTime)
    IN IF today > t THEN today ELSE today + DayMinutes

\* minutes a zone's wall clock is ahead of UTC (neither zone has daylight
\* saving time); the server's clock is taken to run on UTC
RefUtcOffset(tz) == IF tz = "Asia/Dubai" THEN 4 * 60 ELSE 0

\* the instant t as wall-clock minutes in the zone of the preferences
RefWallClock(p, t) == t + RefUtcOffset(p.quietHours.timezone)

RefValid(data) ==
    /\ data.recipient # NoRecipient
    /\ data.title # ""
    /\ data.message # ""
    /\ data.type \in {"reminder", "contract_exceeded"}

RefTargets(push, web) ==
    (IF push # None THEN {"push"} ELSE {}) \cup (IF web # None THEN {"web"} ELSE {})

----------------------------------------------------------------------------
\* results of the calls in the current state
SendResult(u, data, o) ==
    sendNotificationIfAllowed(prefs, notifs, u, data, now, o[1], o[2], o[3])

CreateResult(data, o) == createAndSend(notifs, data, now, o[1], o[2], o[3])

NewId == Len(notifs) + 1

\* C1: a send for a recipient whose preferences disable the type (toggle
\* false, pushEnabled false, or a type without a toggle) returns null, leaves
\* the Notification collection as it was and makes no channel send (the
\* store answering).
C1_Suppressed ==
    \A u \in Users : \A data \in SendPayloads(u) : \A o \in CallOutcomes :
        (o[1] /\ ~RefEnabled(PrefsOf(u), data.type))
        => LET r == SendResult(u, data, o)
           IN r.ret = "null" /\ r.notifs = notifs /\ r.sent = {}

\* a call has just returned null for a recipient whose reminder toggle is
\* off and who has both channel targets registered
C1_Witness ==
    /\ last.op = "sendIfAllowed" /\ last.ret = "null"
    /\ \E u \in DOMAIN prefs :
         /\ prefs[u].pushEnabled /\ ~prefs[u].notificationTypes["reminder"]
         /\ prefs[u].pushToken # None /\ prefs[u].webPushSubscription # None

\* C2: every status change of a record is pending->sent, pending->delivered,
\* sent->read, delivered->read or (non-archived)->archived.
C2_Transitions ==
    { <<"pending", "sent">>, <<"pending", "delivered">>,
      <<"sent", "read">>, <<"delivered", "read">> }
    \cup { <<st, "archived">> : st \in StatusEnum \ {"archived"} }

C2_OnlyListedTransitions ==
    [][\A i \in 1..Len(notifs) :
         notifs'[i].status # notifs[i].status
         => <<notifs[i].status, notifs'[i].status>> \in C2_Transitions]_vars

\* C3: archived is terminal: a record that is archived is archived after
\* every later operation.
C3_ArchivedTerminal ==
    [][\A i \in 1..Len(notifs) :
         notifs[i].status = "archived" => notifs'[i].status = "archived"]_vars

\* C4: a non-urgent send made inside the quiet-hours window returns a record
\* whose scheduledFor is the next occurrence of quietHours.endTime (today if
\* still ahead, else the next day), makes no channel send, and leaves the
\* record pending; and no record is delivered before its scheduledFor, so it
\* stays pending (for delivery) until a sweep at or after that time.
C4_Deferred ==
    /\ \A u \in Users : \A data \in SendPayloads(u) : \A o \in CallOutcomes :
         (/\ o[1] /\ RefValid(data)
          /\ RefEnabled(PrefsOf(u), data.type)
          /\ RefInQuietHours(PrefsOf(u), now)
          /\ data.priority # "urgent")
         => LET r == SendResult(u, data, o)
            IN /\ r.ret = "record" /\ r.id = NewId
               /\ Len(r.notifs) = NewId
               /\ r.notifs[NewId].scheduledFor = RefNextEnd(PrefsOf(u), now)
               /\ r.notifs[NewId].scheduledFor > now
               /\ r.notifs[NewId].status = "pending"
               /\ r.sent = {}
    /\ \A i \in 1..Len(notifs) :
         (notifs[i].scheduledFor # NoDate /\ notifs[i].scheduledFor > now)
         => /\ notifs[i].status \in {"pending", "read", "archived"}
            /\ notifs[i].pushResponse = None
            /\ notifs[i].webPushResponse = None

\* a send inside the window has just been deferred to the next calendar day
\* for a recipient with both targets
C4_Witness ==
    /\ last.op = "sendIfAllowed" /\ last.ret = "record" /\ last.sent = {}
    /\ notifs[last.id].status = "pending"
    /\ notifs[last.id].scheduledFor \div DayMinutes > now \div DayMinutes
    /\ notifs[last.id].pushToken # None
    /\ notifs[last.id].webPushSubscription # None
    /\ RefInQuietHours(prefs[notifs[last.id].recipient], now)

\* C5: an urgent send of an enabled type never gets a scheduledFor and is
\* attempted at once on every channel target the recipient has, inside the
\* quiet-hours window or not.
C5_UrgentImmediate ==
    \A u \in Users : \A data \in SendPayloads(u) : \A o \in CallOutcomes :
        (/\ o[1] /\ RefValid(data)
         /\ RefEnabled(PrefsOf(u), data.type)
         /\ data.priority = "urgent")
        => LET r == SendResult(u, data, o)
               p == PrefsOf(u)
           IN /\ r.ret = "record"
              /\ r.notifs[NewId].scheduledFor = NoDate
              /\ r.sent = {<<NewId, c>> :
                             c \in RefTargets(p.pushToken, p.webPushSubscription)}

\* a send made inside the window was attempted at once on both channels
C5_Witness ==
    /\ last.op = "sendIfAllowed" /\ last.ret = "record"
    /\ last.sent = {<<last.id, "push">>, <<last.id, "web">>}
    /\ notifs[last.id].scheduledFor = NoDate
    /\ RefInQuietHours(prefs[notifs[last.id].recipient], now)

\* C6: a sweep re-attempts every record whose immediate attempt failed on
\* every channel (pending, no scheduledFor, at least one target).
C6_SweepRetriesFailed ==
    [][last'.op = "sweep"
       => \A i \in 1..Len(notifs) :
            (/\ notifs[i].status = "pending"
             /\ notifs[i].scheduledFor = NoDate
             /\ RefTargets(notifs[i].pushToken, notifs[i].webPushSubscription) # {})
            => \E c \in {"push", "web"} : <<i, c>> \in last'.sent]_vars

\* C7: createAndSend of a valid payload stores one new record whatever the
\* channels do; the stored status never comes from the payload: it is
\* pending when no channel acknowledged (also when every attempt throws),
\* and every channel send of the call is for the stored record.
C7_PersistedFirst ==
    \A data \in DirectPayloads(now) : \A o \in CallOutcomes :
        (o[1] /\ RefValid(data))
        => LET r == CreateResult(data, o)
               ack == \/ data.pushToken # None /\ o[2]
                      \/ data.webPushSubscription # None /\ o[3]
           IN /\ r.ret = "record" /\ r.id = NewId
              /\ Len(r.notifs) = NewId
              /\ SubSeq(r.notifs, 1, Len(notifs)) = notifs
              /\ r.notifs[NewId].recipient = data.recipient
              /\ r.notifs[NewId].status \in {"pending", "delivered"}
              /\ ~ack => r.notifs[NewId].status = "pending"
              /\ \A x \in r.sent : x[1] = NewId
              /\ r.trace[1] = "save"
              /\ \A k \in 2..Len(r.trace) : r.trace[k] \in {"push", "web"}
              /\ Len(r.trace) = 1 + Cardinality(r.sent)

\* every channel attempt of a createAndSend threw and the record is stored
C7_Witness ==
    /\ last.op = "createAndSend" /\ last.ret = "record"
    /\ last.sent = {<<last.id, "push">>, <<last.id, "web">>}
    /\ last.acked = {}
    /\ last.id = Len(notifs)
    /\ notifs[last.id].status = "pending"

\* the record an immediate attempt must leave, given which channels are
\* present and which acknowledge
C8_Expected(doc, push, web, pushOK, webOK) ==
    LET pa == push # None /\ pushOK
        wa == web # None /\ webOK
    IN /\ (pa \/ wa) => doc.status = "delivered"
       /\ pa => doc.pushResponse = "tickets"
       /\ wa => doc.webPushResponse = "resp"
       /\ (~pa /\ wa) => doc.pushResponse = "resp"
       /\ ~wa => doc.webPushResponse = None
       /\ (~pa /\ ~wa) => (doc.status = "pending" /\ doc.pushResponse = None)

\* C8: after an immediate attempt the record is delivered, with the
\* acknowledging channel's response stored, if at least one present channel
\* acknowledged, and pending otherwise (also with no target), for every
\* combination of targets and outcomes.
C8_StatusByAcks ==
    /\ \A data \in DirectPayloads(now) : \A o \in CallOutcomes :
         (o[1] /\ RefValid(data) /\ data.scheduledFor = NoDate)
         => C8_Expected(CreateResult(data, o).notifs[NewId],
                        data.pushToken, data.webPushSubscription, o[2], o[3])
    /\ \A u \in Users : \A data \in SendPayloads(u) : \A o \in CallOutcomes :
         (/\ o[1] /\ RefValid(data)
          /\ RefEnabled(PrefsOf(u), data.type)
          /\ (data.priority = "urgent" \/ ~RefInQuietHours(PrefsOf(u), now)))
         => C8_Expected(SendResult(u, data, o).notifs[NewId],
                        PrefsOf(u).pushToken, PrefsOf(u).webPushSubscription,
                        o[2], o[3])

\* the push send threw, the web-push send acknowledged: delivered
C8_Witness ==
    /\ last.op = "sendIfAllowed" /\ last.ret = "record"
    /\ last.sent = {<<last.id, "push">>, <<last.id, "web">>}
    /\ last.acked = {<<last.id, "web">>}
    /\ notifs[last.id].status = "delivered"
    /\ notifs[last.id].webPushResponse = "resp"

\* the records a sweep at time t works on
C9_Due(t) ==
    { i \in 1..Len(notifs) : /\ notifs[i].scheduledFor # NoDate
                             /\ notifs[i].scheduledFor <= t
                             /\ notifs[i].status \in {"pending", "sent"} }

\* C9: a channel that throws is not raised to the caller and does not stop
\* the other channel: with both targets present and the push send throwing,
\* the web-push send is still made (and delivers if it acknowledges), and
\* the call returns the record; the same holds for every record of a sweep.
C9_FailureContained ==
    /\ \A data \in DirectPayloads(now) : \A webOK \in BOOLEAN :
         (/\ RefValid(data) /\ data.scheduledFor = NoDate
          /\ data.pushToken # None /\ data.webPushSubscription # None)
         => LET r == CreateResult(data, <<TRUE, FALSE, webOK>>)
            IN /\ r.ret = "record"
               /\ r.sent = {<<NewId, "push">>, <<NewId, "web">>}
               /\ (<<NewId, "web">> \in r.acked) = webOK
               /\ (r.notifs[NewId].status = "delivered") = webOK
    /\ \A pushOK, webOK \in [C9_Due(now) -> BOOLEAN] :
         LET r == processScheduledNotifications(notifs, C9_Due(now), pushOK, webOK)
         IN /\ r.ret = "ok"
            /\ \A i \in C9_Due(now) :
                 (notifs[i].pushToken # None /\ notifs[i].webPushSubscription # None)
                 => /\ <<i, "push">> \in r.sent /\ <<i, "web">> \in r.sent
                    /\ (<<i, "web">> \in r.acked) = webOK[i]
                    /\ (r.notifs[i].status = "delivered") = (pushOK[i] \/ webOK[i])

\* a sweep whose push send threw still made the web-push send
C9_Witness ==
    /\ last.op = "sweep" /\ last.ret = "ok"
    /\ \E i \in 1..Len(notifs) :
         /\ <<i, "push">> \in last.sent \ last.acked
         /\ <<i, "web">> \in last.acked
         /\ notifs[i].status = "delivered"

C11_ScheduledNotSent ==
    \A data \in DirectPayloads(now) : \A o \in CallOutcomes :
        (o[1] /\ RefValid(data) /\ data.scheduledFor # NoDate /\ data.scheduledFor > now)
        => LET r == CreateResult(data, o)
           IN /\ r.ret = "record"
              /\ Len(r.notifs) = NewId
              /\ r.notifs[NewId].status = "pending"
              /\ r.notifs[NewId].scheduledFor = data.scheduledFor
              /\ r.notifs[NewId].pushResponse = None
              /\ r.notifs[NewId].webPushResponse = None
              /\ r.sent = {}
              /\ r.trace = <<"save">>

\* a createAndSend with both targets and a scheduledFor in the future has
\* just stored its record without a send
C11_Witness ==
    /\ last.op = "createAndSend" /\ last.ret = "record" /\ last.sent = {}
    /\ notifs[last.id].scheduledFor > now
    /\ notifs[last.id].pushToken # None
    /\ notifs[last.id].webPushSubscription # None
    /\ notifs[last.id].status = "pending"

\* a record a sweep at time t may work on
RefDue(doc, t) ==
    /\ doc.scheduledFor # NoDate
    /\ doc.scheduledFor <= t
    /\ doc.status \in {"pending", "sent"}

\* the records the last sweep made a channel send for
SweptIds(o) == { x[1] : x \in o.sent }

\* C12: a sweep makes channel sends only for records that, when it starts,
\* have a scheduledFor at or before the current time and status pending or
\* sent, for at most 100 records; every other record is left as it was.
C12_SweepSelection ==
    [][(last'.op = "sweep" /\ now' = now)
       => /\ Cardinality(SweptIds(last')) <= 100
          /\ \A i \in SweptIds(last') : RefDue(notifs[i], now)
          /\ Len(notifs') = Len(notifs)
          /\ \A i \in 1..Len(notifs) :
               ~RefDue(notifs[i], now) => notifs'[i] = notifs[i]]_vars

\* a sweep has just sent for 100 records while another due record with a
\* target waits, and the store also holds a record without scheduledFor
C12_Witness ==
    /\ last.op = "sweep"
    /\ Cardinality(SweptIds(last)) = 100
    /\ \E i \in 1..Len(notifs) :
         /\ RefDue(notifs[i], now) /\ i \notin SweptIds(last)
         /\ notifs[i].pushToken # None
    /\ \E i \in 1..Len(notifs) :
         notifs[i].scheduledFor = NoDate /\ notifs[i].status = "pending"

\* the records whose sends all failed in the sweep with outcome o
FailedIds(o) == { i \in SweptIds(o) : \A x \in o.acked : x[1] # i }

\* C13: a record whose sends failed in a sweep and that is still pending is
\* sent for again by the very next sweep (only the clock moving in between),
\* however many due records the store holds.
C13_RetriedByNextSweep ==
    [][(last.op = "sweep" /\ last'.op = "sweep" /\ now' = now)
       => \A i \in FailedIds(last) :
            notifs[i].status = "pending" => i \in SweptIds(last')]_vars

\* the records of (recipient, type, key) created on calendar day d
RefCreatedOn(ns, u, type, key, d) ==
    { i \in 1..Len(ns) : /\ ns[i].recipient = u /\ ns[i].type = type
                         /\ ns[i].key = key
                         /\ ns[i].createdAt \div DayMinutes = d }

RefCrossesDown(before, after) ==
    /\ (before = NoMaterial \/ before > 5)
    /\ after <= 5

\* C16: an update of the quantity makes the low_stock sends exactly when the
\* quantity was above 5 before and is at or below 5 after; an update that
\* makes no send stores nothing, and a send for a recipient with low_stock
\* enabled stores one low_stock record.
C16_EdgeTrigger ==
    [][last'.op \in StockOps
       => /\ (last'.ret \in {"notified", "error"})
               = RefCrossesDown(quantity, quantity')
          /\ last'.ret = "ok" => notifs' = notifs
          /\ last'.ret = "notified"
               => \A u \in Users :
                    RefEnabled(PrefsOf(u), "low_stock")
                    => /\ Len(notifs') = Len(notifs) + 1
                       /\ notifs'[Len(notifs')].type = "low_stock"
                       /\ notifs'[Len(notifs')].recipient = u]_vars

\* the quantity has just crossed down again: a second low_stock record
C16_Witness ==
    /\ last.op \in StockOps /\ last.ret = "notified"
    /\ quantity <= 5
    /\ Len(notifs) = 2
    /\ notifs[1].type = "low_stock" /\ notifs[2].type = "low_stock"

\* C17: every markAsRead call, on a record of any status (read included),
\* leaves the record with status read and readAt set to the time of the
\* call, and changes nothing else.
C17_MarkAsReadIdempotent ==
    [][last'.op = "markAsRead"
       => /\ notifs'[last'.id].status = "read"
          /\ notifs'[last'.id].readAt # NoDate
          /\ notifs' = [notifs EXCEPT ![last'.id].status = "read",
                                      ![last'.id].readAt = now]]_vars

\* markAsRead has just been called on a record that was already read, at a
\* later time than the first call
C17_Witness ==
    /\ last.op = "markAsRead" /\ last.ret = "read"
    /\ notifs[last.id].status = "read"
    /\ notifs[last.id].readAt = now
    /\ now > 0

\* C19: quiet hours are evaluated on the wall clock of the stored
\* quietHours.timezone: isInQuietHours is true exactly when the current time
\* in that zone is inside the window, and the scheduledFor of a deferred send
\* is the next occurrence of quietHours.endTime in that zone.
C19_UsesStoredTimezone ==
    /\ \A u \in DOMAIN prefs :
         isInQuietHours(prefs[u], now)
             = RefInQuietHours(prefs[u], RefWallClock(prefs[u], now))
    /\ \A u \in DOMAIN prefs : \A data \in SendPayloads(u) : \A o \in CallOutcomes :
         LET r == SendResult(u, data, o)
         IN (r.ret = "record" /\ r.notifs[r.id].scheduledFor # NoDate)
            => RefWallClock(prefs[u], r.notifs[r.id].scheduledFor)
                   = RefNextEnd(prefs[u], RefWallClock(prefs[u], now))

\* C20: for a recipient without preferences getOrCreateForUser creates
\* defaults with push enabled, every toggle on and quiet hours disabled; under
\* them isNotificationEnabled is true for every type of the Notification type
\* enum, isInQuietHours is false, and a valid send of each such type persists
\* a record (the store answering).
C20_DefaultsEnableEveryType ==
    \A u \in Users \ DOMAIN prefs :
        LET p == getOrCreateForUser(prefs, u)[u]
        IN /\ p.pushEnabled
           /\ \A ty \in DOMAIN p.notificationTypes : p.notificationTypes[ty]
           /\ ~p.quietHours.enabled
           /\ ~isInQuietHours(p, now)
           /\ \A ty \in NotificationTypeEnum :
                /\ isNotificationEnabled(p, ty)
                /\ \A o \in CallOutcomes :
                     o[1] => LET r == SendResult(u, Payload(u, "T", "M", ty, "medium"), o)
                             IN /\ r.ret = "record"
                                /\ Len(r.notifs) = Len(notifs) + 1
                                /\ r.notifs[r.id].type = ty

\* C18: isInQuietHours is false when quiet hours are disabled; with start <
\* end (as minutes of the day) it is true exactly when start <= t <= end;
\* otherwise (start >= end) exactly when t >= start or t <= end.
C18_QuietHoursReference ==
    \A u \in DOMAIN prefs :
        LET qh == prefs[u].quietHours
            st == qh.startTime.h * 60 + qh.startTime.m
            e == qh.endTime.h * 60 + qh.endTime.m
            t == now % DayMinutes
            expected == /\ qh.enabled
                        /\ IF st < e THEN st <= t /\ t <= e ELSE t >= st \/ t <= e
        IN /\ isInQuietHours(prefs[u], now) = expected
           /\ last.op = "isInQuietHours" => (last.ret = "true") = expected

\* the method has just answered true at the end minute of an overnight window
C18_Witness ==
    /\ last.op = "isInQuietHours" /\ last.ret = "true"
    /\ \E u \in DOMAIN prefs :
         /\ prefs[u].quietHours.startTime = HM(22, 0)
         /\ prefs[u].quietHours.endTime = HM(7, 30)
         /\ now % DayMinutes = 7 * 60 + 30

\* C21: a NotificationPreferences document is inserted only for a recipient
\* who has none, no document is ever removed, and every access that has gone
\* through getOrCreateForUser (returned or thrown) leaves the recipient with
\* a document: at most one per recipient, exactly one once accessed, under
\* every interleaving of getOrCreate, sendIfAllowed and preference updates.
C21_OnePreferencesRecord ==
    [][/\ \A c \in Procs :
            (/\ calls[c].pc = "insert"
             /\ calls'[c].pc # "insert"
             /\ calls'[c].ret # "error")
            => calls[c].u \notin DOMAIN prefs
       /\ DOMAIN prefs \subseteq DOMAIN prefs'
       /\ \A c \in Procs :
            (calls[c].pc \in {"findOne", "insert"}
             /\ calls'[c].pc \notin {"findOne", "insert"})
            => calls[c].u \in DOMAIN prefs'
      ]_vars

\* two overlapping accesses of a recipient without preferences: one has
\* stored the document, the save of the other has just been rejected
C21_Witness ==
    \E c, d \in Procs :
        /\ c # d
        /\ calls[c].op = "getOrCreate" /\ calls[c].ret = "error"
        /\ calls[d].op = "sendIfAllowed" /\ calls[d].u = calls[c].u
        /\ calls[c].u \in DOMAIN prefs

\* C23: under every interleaving of a delivery attempt (of createAndSend or
\* of a sweep) with the recipient's requests, a record that is read or
\* archived never becomes delivered.
C23_NoReturnToDelivered ==
    [][\A i \in 1..Len(notifs) :
          notifs[i].status \in {"read", "archived"}
          => notifs'[i].status # "delivered"]_vars

\* C27: two sendNotificationIfAllowed calls that overlap for one recipient
\* both return without an error, and a call that returns a record has
\* stored it.
C27_ConcurrentSendsComplete ==
    \A c, d \in Procs :
        (/\ c # d
         /\ calls[c].op = "sendIfAllowed" /\ calls[c].pc = "done"
         /\ calls[d].op = "sendIfAllowed" /\ calls[d].u = calls[c].u)
        => /\ calls[c].ret # "error"
           /\ calls[c].ret = "record" => calls[c].id \in 1..Len(notifs)

\* C22 as stated: in every reachable state a record that has scheduledFor
\* set has had no delivery attempt: it is not delivered and holds no channel
\* response.
C22_ScheduledMeansUnattempted ==
    \A i \in 1..Len(notifs) :
        notifs[i].scheduledFor # NoDate
        => /\ notifs[i].status # "delivered"
           /\ notifs[i].pushResponse = None
           /\ notifs[i].webPushResponse = None

\* C22 (amended): a record whose scheduledFor is later than the current time
\* has had no delivery attempt: no operation makes a channel send for it, it
\* is not delivered and holds no channel response; and no operation changes
\* or clears the scheduledFor of a stored record, attempted or not.
C22_FutureScheduledUnattempted ==
    [][/\ \A i \in 1..Len(notifs') :
            (notifs'[i].scheduledFor # NoDate /\ notifs'[i].scheduledFor > now')
            => /\ \A x \in last'.sent : x[1] # i
               /\ notifs'[i].status # "delivered"
               /\ notifs'[i].pushResponse = None
               /\ notifs'[i].webPushResponse = None
       /\ \A i \in 1..Len(notifs) :
            /\ i <= Len(notifs')
            /\ notifs'[i].scheduledFor = notifs[i].scheduledFor]_vars

\* a sweep has just run while a pending record with a push target waits for
\* a scheduledFor that is still ahead, and made no send
C22_Witness ==
    /\ last.op = "sweep" /\ last.sent = {}
    /\ \E i \in 1..Len(notifs) :
         /\ notifs[i].scheduledFor # NoDate /\ notifs[i].scheduledFor > now
         /\ notifs[i].pushToken # None
         /\ notifs[i].status = "pending"

\* the records of (recipient, type, key) created on the calendar day of t
RefToday(ns, u, type, key, t) ==
    { i \in 1..Len(ns) : /\ ns[i].recipient = u /\ ns[i].type = type
                         /\ ns[i].key = key
                         /\ ns[i].createdAt \div DayMinutes = t \div DayMinutes }

\* C24: whatever the hourly checks have done, the store holds at most one
\* record of a calendar day per (recipient, deadline_overdue, task) and per
\* (recipient, daily summary); and a check that runs while the recipient's
\* deadlineReminders.repeat is false adds no deadline_approaching record for
\* a (recipient, task) that already has one of the day, and at most one
\* otherwise.
C24_OncePerDay ==
    [][\A u \in Users :
        /\ \A d \in {now, now'} :
             /\ Cardinality(RefToday(notifs', u, "reminder", "daily", d)) <= 1
             /\ \A k \in TaskIds :
                  Cardinality(RefToday(notifs', u, "deadline_overdue", k, d)) <= 1
        /\ \A k \in TaskIds :
             (/\ u \in DOMAIN prefs
              /\ ~prefs[u].reminderSettings.deadlineReminders.repeat)
             => /\ Cardinality(RefToday(notifs', u, "deadline_approaching", k, now')) <=
                     IF RefToday(notifs, u, "deadline_approaching", k, now) = {}
                     THEN 1 ELSE Cardinality(RefToday(notifs, u, "deadline_approaching", k, now))
      ]_vars

\* each of the three checks has found its record of the day and added none:
\* the store holds an overdue and an approaching record of one task and a
\* daily summary, all of today, and the last check notified nobody
C24_Witness ==
    /\ last.op \in {"checkApproaching", "checkOverdue", "dailySummaries"}
    /\ last.ret = "ok"
    /\ \E u \in Users :
         /\ u \in DOMAIN prefs
         /\ ~prefs[u].reminderSettings.deadlineReminders.repeat
         /\ prefs[u].reminderSettings.deadlineReminders.enabled
         /\ prefs[u].reminderSettings.dailySummary.enabled
         /\ prefs[u].notificationTypes["deadline_overdue"]
         /\ RefToday(notifs, u, "reminder", "daily", now) # {}
         /\ \E k \in TaskIds :
              /\ RefToday(notifs, u, "deadline_overdue", k, now) # {}
              /\ \E i \in 1..Len(notifs) :
                   /\ notifs[i].type = "deadline_approaching" /\ notifs[i].key = k

\* C25: no operation makes a channel send for a non-urgent record created
\* through sendIfAllowed at a time inside the quiet-hours window of the
\* recipient, whose preferences never change: not the creating call, not a
\* sweep, not a sweep that retries a record whose earlier attempt failed.
C25_NoSendInQuietHours ==
    [][\A x \in last'.sent :
          notifs'[x[1]].priority # "urgent"
          => ~RefInQuietHours(prefs'[notifs'[x[1]].recipient], now')]_vars

\* the length in minutes of the quiet-hours window of p
RefWindowLength(p) ==
    (RefMinuteOfDay(p.quietHours.endTime) - RefMinuteOfDay(p.quietHours.startTime)
       + DayMinutes) % DayMinutes

\* C26: a send that sendIfAllowed has deferred carries a scheduledFor that is
\* strictly after the time of the call and no further away than the length
\* of the recipient's quiet-hours window, at every time inside the window,
\* the minutes of startTime and of endTime included.
C26_DeferralWithinWindow ==
    (/\ last.op = "sendIfAllowed" /\ last.ret = "record"
     /\ notifs[last.id].scheduledFor # NoDate)
    => /\ notifs[last.id].scheduledFor > now
       /\ notifs[last.id].scheduledFor - now
            <= RefWindowLength(prefs[notifs[last.id].recipient])

\* a record that holds the trace of an acknowledged send
RefAcknowledged(doc) ==
    \/ doc.status \in {"delivered", "read", "archived"}
    \/ doc.pushResponse # None
    \/ doc.webPushResponse # None

\* C28: with operations that do not overlap a record gets at most one
\* acknowledged send per channel: every acknowledged send leaves the record
\* delivered with the response of its channel, no operation takes that trace
\* away again, and no operation sends on any channel for a stored record
\* that carries it; in particular no sweep sends for a record that
\* createAndSend or an earlier sweep has delivered.
C28_NoSendAfterDelivered ==
    [][/\ \A x \in last'.acked :
            /\ notifs'[x[1]].status = "delivered"
            /\ x[2] = "push" => notifs'[x[1]].pushResponse # None
            /\ x[2] = "web" => notifs'[x[1]].webPushResponse # None
       /\ \A i \in 1..Len(notifs) :
            RefAcknowledged(notifs[i])
            => /\ RefAcknowledged(notifs'[i])
               /\ notifs'[i].status \notin {"pending", "sent"}
               /\ \A x \in last'.sent : x[1] # i]_vars

\* a sweep has just run over a record that was delivered before, is due and
\* has both targets, and sent nothing
C28_Witness ==
    /\ last.op = "sweep" /\ last.sent = {}
    /\ \E i \in 1..Len(notifs) :
         /\ notifs[i].status = "delivered"
         /\ notifs[i].scheduledFor # NoDate /\ notifs[i].scheduledFor <= now
         /\ notifs[i].pushToken # None /\ notifs[i].webPushSubscription # None

\* the first record behind as many records as one sweep loads
RefStraggler == BatchLimit + 1

\* C29: with the sweeps running for ever, a deferred record whose
\* scheduledFor has passed and whose targets acknowledge every send is
\* eventually delivered (or read or archived), also when the store holds
\* as many due records that never get an acknowledgement as a sweep loads.
C29_EventuallyDelivered ==
    (/\ Len(notifs) >= RefStraggler
     /\ notifs[RefStraggler].scheduledFor # NoDate
     /\ notifs[RefStraggler].scheduledFor <= now
     /\ notifs[RefStraggler].pushToken # None)
    ~> (/\ Len(notifs) >= RefStraggler
        /\ notifs[RefStraggler].status \in {"delivered", "read", "archived"})

\* C30: a request of recipient A to mark one notification as read, to
\* archive one or to mark all as read, with whatever id, leaves every record
\* of another recipient as it was.
C30_RecipientScoped ==
    [][\A i \in 1..Len(notifs) :
          notifs[i].recipient # ScopeUser
          => /\ i <= Len(notifs')
             /\ notifs'[i] = notifs[i]]_vars

\* the recipient has marked one record as read and archived another while
\* the store holds a delivered and a pending record of the other recipient
C30_Witness ==
    /\ \E i, j \in 1..Len(notifs) :
         /\ notifs[i].recipient = ScopeUser /\ notifs[i].status = "read"
         /\ notifs[j].recipient = OtherUser /\ notifs[j].status = "delivered"
    /\ last.op = "markAsRead"
    /\ \E j \in 1..Len(notifs) :
         notifs[j].recipient = OtherUser /\ notifs[j].status = "pending"

\* C14: the channel targets of a record are those of the recipient's
\* preferences when sendNotificationIfAllowed created it and no operation
\* changes them afterwards; every send is made to a target of the record
\* itself; a pending record without targets gets no send and no sweep
\* changes it, whatever the recipient has registered since.
C14_TargetsSnapshot ==
    [][/\ \A i \in 1..Len(notifs) :
            /\ notifs'[i].pushToken = notifs[i].pushToken
            /\ notifs'[i].webPushSubscription = notifs[i].webPushSubscription
       /\ \A x \in last'.sent :
            x[2] \in RefTargets(notifs'[x[1]].pushToken,
                                notifs'[x[1]].webPushSubscription)
       /\ \A i \in 1..Len(notifs) :
            (/\ notifs[i].status = "pending"
             /\ RefTargets(notifs[i].pushToken, notifs[i].webPushSubscription) = {})
            => /\ notifs'[i].status \in {"pending", "read", "archived"}
               /\ last'.op = "sweep" => notifs'[i] = notifs[i]
       /\ (last'.op = "sendIfAllowed" /\ Len(notifs') > Len(notifs))
            => LET d == notifs'[Len(notifs')]
               IN /\ d.pushToken = PrefsOf(d.recipient).pushToken
                  /\ d.webPushSubscription = PrefsOf(d.recipient).webPushSubscription
      ]_vars

\* a sweep has just loaded a due record created without targets, after the
\* recipient registered a push token: the record is still pending
C14_Witness ==
    /\ last.op = "sweep" /\ last.sent = {}
    /\ \E i \in 1..Len(notifs) :
         /\ RefDue(notifs[i], now)
         /\ notifs[i].pushToken = None /\ notifs[i].webPushSubscription = None
         /\ notifs[i].recipient \in DOMAIN prefs
         /\ prefs[notifs[i].recipient].pushToken # None
====
